---- MODULE Spec2Model ----
(***************************************************************************)
(* A model of the iLayer SDK.                                              *)
(*                                                                         *)
(* Part 1: iLayerRfqHelper (src/src/modules/rfq.ts), the request/reply     *)
(* protocol over a pub/sub transport.  The transport (pusher-js) is an     *)
(* external collaborator: it is modelled by its interface only.  A         *)
(* registry maps channel names to channel objects (subscribe returns the   *)
(* registered object or registers a new one, unsubscribe drops the name),  *)
(* and an event may be delivered on a channel object whenever a handler    *)
(* is bound on it.                                                         *)
(*                                                                         *)
(* Part 2: QuoteTracker (src/unnamed/part_003), the client-side store of   *)
(* quotes with its expiry sweep.  Quotes are values: a caller that goes on *)
(* changing an object it has handed to storeQuote is not modelled.         *)
(***************************************************************************)
EXTENDS Integers, Sequences, FiniteSets, TLC

\* ---- bounds of the model ---------------------------------------------------
NumReq == 2          \* requestQuote calls
NumObs == 1          \* onBucket calls
MaxAtt == 3          \* transport subscribe calls (subscription attempts)
MaxCalls == 2        \* requestQuote and onBucket calls together (SpecRfq)
MaxAcquireCalls == 3 \* the same, in SpecAcquire
MaxEmits == 2        \* client-rfq.* events the transport delivers
MaxNow == 3          \* Date.now() runs from 0 to MaxNow
MaxExpiry == 2       \* expiresAt of a quote runs from 1 to MaxExpiry

Req == 1..NumReq
Obs == 1..NumObs
Att == 1..MaxAtt

\* ---- values ------------------------------------------------------------------
Undefined == "undefined"
OptionBuckets == {"b1"}            \* buckets a caller passes in options
PayloadBuckets == {"b2"}           \* buckets a caller passes in the payload
GeneratedBuckets == {"g1"}         \* tokens defaultBucket() produces
Buckets == OptionBuckets \cup PayloadBuckets \cup GeneratedBuckets

BroadcastName == "private-rfq.broadcast"
ReplyName(bucket) == "private-rfq." \o bucket
Names == {BroadcastName} \cup {ReplyName(b) : b \in Buckets}

EvStatus == "client-rfq.status"
EvError == "client-rfq.error"
EvQuote == "client-rfq.quote"
ReplyEvents == {EvStatus, EvError, EvQuote}

ErrorPayloads == [code : {"FAIL"}, message : {"boom"}]
\* a response (Quote[]) by the id of its quote
QuotePayloads == {[id |-> "quoteA"], [id |-> "quoteB"]}
PayloadsOf(ev) ==
  IF ev = EvStatus THEN {[stage |-> "quoting", note |-> Undefined],
          [stage |-> "failed", note |-> "solver down"], [stage |-> "FAILED",
          note |-> Undefined]}
  ELSE IF ev = EvError THEN ErrorPayloads
  ELSE QuotePayloads

VARIABLES
  channels,         \* helper: Map name -> channel object (0: no entry)
  pendingChannels,  \* helper: Map name -> subscription attempt (0: no entry)
  att,              \* subscription attempts (getChannel's promise chains)
  registry,         \* transport: name -> registered channel object (0: none)
  unsubs,           \* transport: unsubscribe calls received, per name
  disconnected,     \* transport: disconnect() has been called
  rq,               \* the requestQuote calls
  ob,               \* the onBucket calls
  nEmits,           \* client-rfq.* events delivered so far
  lastOp            \* the last operation, callback or event that ran, with
                    \* what it met: the calls an event found pending, the
                    \* names a disconnect unsubscribed

rfqVars == <<channels, pendingChannels, att, registry, unsubs, disconnected,
             rq, ob, nEmits, lastOp>>

VARIABLES
  quotes,           \* tracker: Map quoteId -> StoredQuote (NoQuote: no entry)
  now,              \* Date.now()
  cleanupIntervalId,\* tracker: the sweep interval is set (FALSE: undefined)
  lastT             \* the last tracker operation, with its argument, the
                    \* store it met and the value it returned

trackerVars == <<quotes, now, cleanupIntervalId, lastT>>

VARIABLES
  verifyCalls,      \* signing: the verifySignature calls made so far, each
                    \* with its arguments and the value it resolved with
  signCalls         \* signing: the signOrderRequest calls made so far, each
                    \* with its arguments and how its promise settled

signVars == <<verifyCalls, signCalls>>

VARIABLES
  lastE,            \* contract helper: the last call made on it, with its
                    \* arguments, what it met and what it returned or threw
  nCalls            \* contract helper: the calls made on it so far

vars == <<rfqVars, trackerVars, signVars, <<lastE, nCalls>>>>

\* what the operations of one component leave alone
outsideRfq == <<trackerVars, signVars, <<lastE, nCalls>>>>
outsideTracker == <<rfqVars, signVars, <<lastE, nCalls>>>>
outsideSigning == <<rfqVars, trackerVars, <<lastE, nCalls>>>>
outsideEvm == <<rfqVars, trackerVars, signVars>>

\* ---- pure helpers -------------------------------------------------------------
\* a ?? b
Coalesce(a, b) == IF a = Undefined THEN b ELSE a

\* String.prototype.toLowerCase on the stage names and addresses of the model
ToLowerCase(s) ==
  CASE s = "FAILED" -> "failed"
    [] s = "Failed" -> "failed"
    [] s = "QUOTING" -> "quoting"
    [] s = "0xAb" -> "0xab"
    [] s = "0xAB" -> "0xab"
    [] OTHER -> s

Digit(d) ==
  CASE d = 0 -> "0" [] d = 1 -> "1" [] d = 2 -> "2" [] d = 3 -> "3"
    [] d = 4 -> "4" [] d = 5 -> "5" [] d = 6 -> "6" [] d = 7 -> "7"
    [] d = 8 -> "8" [] OTHER -> "9"

RECURSIVE NumberToString(_)
NumberToString(n) ==
  IF n < 10 THEN Digit(n) ELSE NumberToString(n \div 10) \o Digit(n % 10)

\* token.amount.toString()
AmountToString(a) == IF a.kind = "string" THEN a.str ELSE NumberToString(a.num)

normaliseLeg(leg) ==
  [network |-> leg.network,
   tokens |-> [i \in DOMAIN leg.tokens |->
                 [address |-> leg.tokens[i].address,
                  amount |-> AmountToString(leg.tokens[i].amount)]]]

Payloads ==
  {[from |-> [network |-> "arbitrum",
              tokens |-> <<[address |-> "0xfrom", amount |-> a]>>],
    to |-> [network |-> "base",
            tokens |-> <<[address |-> "0xto",
                    amount |-> a]>>]] : a \in {[kind |-> "number",
                    num |-> 1000, str |-> ""], [kind |-> "string", num |-> 0,
                    str |-> "1000"]}}

\* a resolution that prefers the payload's bucket to the option's
ResolveBucket_payloadFirst(optBucket, payBucket, generated) ==
  Coalesce(payBucket, Coalesce(optBucket, generated))

\* options.bucket ?? payload.bucket ?? defaultBucket()
ResolveBucket(optBucket, payBucket, generated) ==
  Coalesce(optBucket, Coalesce(payBucket, generated))

NoRequest == [bucket |-> Undefined]
NoResult == [bucket |-> Undefined]
NoWait == [kind |-> "none", id |-> 0]

FreeAtt == {a \in Att : att[a].st = "free"}
NewAtt == CHOOSE a \in FreeAtt : \A b \in FreeAtt : a <= b

\* ---- Init ---------------------------------------------------------------------
InitRfq ==
  /\ channels = [n \in Names |-> 0]
  /\ pendingChannels = [n \in Names |-> 0]
  /\ att = [a \in Att |-> [st |-> "free", name |-> Undefined, chan |-> 0,
                           err |-> Undefined]]
  /\ registry = [n \in Names |-> 0]
  /\ unsubs = [n \in Names |-> 0]
  /\ disconnected = FALSE
  /\ rq = [r \in Req |->
            [pc |-> "Idle", bucket |-> Undefined, wait |-> NoWait,
             reply |-> 0, broadcast |-> 0, bound |-> {}, timer |-> FALSE,
             cleanups |-> 0, result |-> NoResult, error |-> Undefined,
             published |-> NoRequest, callbacks |-> FALSE,
             statusSeen |-> [stage |-> Undefined, note |-> Undefined], errorSeen |-> Undefined,
             errorSeenPending |-> FALSE]]
  /\ ob = [o \in Obs |->
            [pc |-> "Idle", bucket |-> Undefined, wait |-> NoWait,
             chan |-> 0, handlers |-> {}, bound |-> {}, stopped |-> FALSE,
             invokedAfterStop |-> FALSE]]
  /\ nEmits = 0
  /\ lastOp = [op |-> "init"]

\* ---- getChannel (rfq.ts 224-246) ------------------------------------------------
\* neither cached nor pending: getChannel goes on to pusher.subscribe
NeedsSubscribe(name) == channels[name] = 0 /\ pendingChannels[name] = 0

\* pusher.subscribe(name): the channel object registered under the name, or a
\* new one (a new object takes the number of the attempt that creates it)
SubscribeChan(name) == IF registry[name] # 0 THEN registry[name] ELSE NewAtt

\* what the caller of getChannel(name) awaits: the cached channel, the pending
\* attempt, or the attempt this call starts
GetChannelWait(name) ==
  IF channels[name] # 0 THEN [kind |-> "chan", id |-> channels[name]]
  ELSE IF pendingChannels[name] # 0
       THEN [kind |-> "att", id |-> pendingChannels[name]]
       ELSE [kind |-> "att", id |-> NewAtt]

\* the state change of getChannel(name); waitForSubscription binds the two
\* subscription handlers and arms the 5000 ms timer: the attempt is "waiting"
getChannel(name) ==
  /\ NeedsSubscribe(name) => FreeAtt # {}
  /\ IF NeedsSubscribe(name)
     THEN /\ att' = [att EXCEPT ![NewAtt] =
                       [st |-> "waiting", name |-> name,
                        chan |-> SubscribeChan(name), err |-> Undefined]]
          /\ registry' = [registry EXCEPT ![name] = SubscribeChan(name)]
          /\ pendingChannels' = [pendingChannels EXCEPT ![name] = NewAtt]
     ELSE UNCHANGED <<att, registry, pendingChannels>>
  /\ UNCHANGED <<channels, unsubs>>

WaitSettled(w) ==
  w.kind = "chan" \/ (w.kind = "att" /\ att[w.id].st \in {"ok", "err"})
WaitOk(w) == w.kind = "chan" \/ (w.kind = "att" /\ att[w.id].st = "ok")
WaitChan(w) == IF w.kind = "chan" THEN w.id ELSE att[w.id].chan
WaitErr(w) == att[w.id].err

\* promise reactions (the code after an await, a .then callback) run before
\* the next timer or transport event
ContinuationReady ==
  \/ \E r \in Req : /\ rq[r].pc \in {"AwaitingReply", "AwaitingBroadcast"}
                     /\ WaitSettled(rq[r].wait)
  \/ \E o \in Obs : ob[o].pc = "Waiting" /\ WaitSettled(ob[o].wait)

Calls ==
  Cardinality({r \in Req : rq[r].pc # "Idle"})
    + Cardinality({o \in Obs : ob[o].pc # "Idle"})

\* ---- requestQuote (rfq.ts 119-181) ---------------------------------------------
\* the promise of the call is still unsettled
Unsettled(req) == req.pc \notin {"Resolved", "Rejected"}

\* cleanup() that leaves the timer armed
cleanup_keepsTimer(req) ==
  [req EXCEPT !.bound = {}, !.cleanups = @ + 1]

\* cleanup(): unbind the three listeners, clear the timer
cleanup(req) ==
  [req EXCEPT !.bound = {}, !.timer = FALSE, !.cleanups = @ + 1]

\* resolve(value) / reject(error) of the promise: only the first one counts
resolve(req, value) ==
  IF Unsettled(req) THEN [req EXCEPT !.pc = "Resolved", !.result = value]
  ELSE req
reject(req, message) ==
  IF Unsettled(req) THEN [req EXCEPT !.pc = "Rejected", !.error = message]
  ELSE req

rejectWithError(req, message) == reject(cleanup(req), message)

\* a status handler that compares the stage without lower-casing it
statusHandler_caseSensitive(req, status) ==
  LET fwd == IF req.callbacks THEN [req EXCEPT !.statusSeen = status] ELSE req
  IN IF status.stage = "failed"
     THEN rejectWithError(fwd, Coalesce(status.note,
                                        "RFQ failed with unknown error"))
     ELSE fwd

\* lines 149-156
statusHandler(req, status) ==
  LET fwd == IF req.callbacks THEN [req EXCEPT !.statusSeen = status] ELSE req
  IN IF ToLowerCase(status.stage) = "failed"
     THEN rejectWithError(fwd, Coalesce(status.note,
                                        "RFQ failed with unknown error"))
     ELSE fwd

\* an error handler that rejects with a message of its own
errorHandler_fixedMessage(req, error) ==
  LET fwd == IF req.callbacks
             THEN [req EXCEPT !.errorSeen = error.message,
                              !.errorSeenPending = Unsettled(req)]
             ELSE req
  IN rejectWithError(fwd, "RFQ error")

\* lines 158-161: options.onError?.(error) runs first (errorSeenPending: the
\* promise was unsettled when it ran), then rejectWithError
errorHandler(req, error) ==
  LET fwd == IF req.callbacks
             THEN [req EXCEPT !.errorSeen = error.message,
                              !.errorSeenPending = Unsettled(req)]
             ELSE req
  IN rejectWithError(fwd, error.message)

\* a quote handler that resolves with the bucket slot left unset
quoteHandler_noBucket(req, quote) ==
  resolve(cleanup(req), [bucket |-> Undefined, quote |-> quote])

quoteHandler(req, quote) ==
  resolve(cleanup(req), [bucket |-> req.bucket, quote |-> quote])

\* a timer callback that rejects without cleanup
timerFired_noCleanup(req) == reject(req, "RFQ timeout")

\* a timer callback that cleans up and leaves the promise unsettled
timerFired_noReject(req) == cleanup(req)

\* the timer callback (lines 168-170)
timerFired(req) == rejectWithError(req, "RFQ timeout")

\* lines 123-127: resolve the bucket, start acquiring the reply channel
RequestQuote(r) ==
  /\ rq[r].pc = "Idle"
  /\ r > 1 => rq[r - 1].pc # "Idle"
  /\ \E optBucket \in OptionBuckets \cup {Undefined},
        payBucket \in PayloadBuckets \cup {Undefined},
        generated \in GeneratedBuckets, cbs \in BOOLEAN :
       LET bucket == ResolveBucket(optBucket, payBucket, generated) IN
       /\ getChannel(ReplyName(bucket))
       /\ rq' = [rq EXCEPT ![r] =
                   [@ EXCEPT !.pc = "AwaitingReply", !.bucket = bucket,
                             !.callbacks = cbs,
                             !.wait = GetChannelWait(ReplyName(bucket))]]
       /\ lastOp' = [op |-> "requestQuote", id |-> r, optBucket |-> optBucket,
                      payBucket |-> payBucket, generated |-> generated]
  /\ UNCHANGED <<disconnected, ob, nEmits>>
  /\ UNCHANGED outsideRfq

\* line 127 settles, line 128: start acquiring the broadcast channel
ReplyChannelSettled(r) ==
  /\ rq[r].pc = "AwaitingReply"
  /\ WaitSettled(rq[r].wait)
  /\ IF WaitOk(rq[r].wait)
     THEN /\ getChannel(BroadcastName)
          /\ rq' = [rq EXCEPT ![r] =
                      [@ EXCEPT !.pc = "AwaitingBroadcast",
                                !.reply = WaitChan(rq[r].wait),
                                !.wait = GetChannelWait(BroadcastName)]]
     ELSE /\ rq' = [rq EXCEPT ![r] =
                      [reject(rq[r], WaitErr(rq[r].wait))
                         EXCEPT !.wait = NoWait]]
          /\ UNCHANGED <<channels, pendingChannels, att, registry, unsubs>>
  /\ lastOp' = [op |-> "replyChannelSettled", id |-> r]
  /\ UNCHANGED <<disconnected, ob, nEmits>>
  /\ UNCHANGED outsideRfq

\* listeners that hear the events of every channel
ReqListening_anyChannel(r, c, ev) == ev \in rq[r].bound

\* a channel that runs only the handlers of the first call bound on it
ReqListening_firstOnly(r, c, ev) ==
  /\ rq[r].reply = c
  /\ ev \in rq[r].bound
  /\ \A x \in Req : x < r => ~(rq[x].reply = c /\ ev \in rq[x].bound)

ReqListening(r, c, ev) == rq[r].reply = c /\ ev \in rq[r].bound
ObsListening(o, c, ev) == ob[o].chan = c /\ ev \in ob[o].bound

\* no quote emitted while the publish runs
NoEcho == [id |-> Undefined]

\* an executor that publishes first and binds afterwards: a quote emitted
\* while the publish runs finds no listener
promiseExecutor_triggerFirst(req, chan, normalisedRequest, triggerOk, echo) ==
  LET armed == [req EXCEPT !.timer = TRUE, !.bound = ReplyEvents,
                           !.broadcast = chan, !.wait = NoWait]
  IN IF ~triggerOk THEN reject(armed, "publish failed")
     ELSE [armed EXCEPT !.pc = "Published", !.published = normalisedRequest]

\* the promise executor (lines 136-180): arm the timer (168), bind the three
\* listeners (172-174), publish (176). A publish that throws rejects the
\* promise (the executor has no try/catch); echo is the quote the transport
\* emits on the call's reply channel while the publish runs
promiseExecutor(req, chan, normalisedRequest, triggerOk, echo) ==
  LET armed == [req EXCEPT !.timer = TRUE, !.bound = ReplyEvents,
                           !.broadcast = chan, !.wait = NoWait]
      published == [armed EXCEPT !.pc = "Published",
                                 !.published = normalisedRequest]
  IN IF ~triggerOk THEN reject(armed, "publish failed")
     ELSE IF echo # NoEcho /\ EvQuote \in published.bound
          THEN quoteHandler(published, echo)
          ELSE published

\* line 128 settles, lines 130-180: arm the timer, bind the three listeners,
\* publish the normalised request. The transport may fail the publish, and it
\* may answer it at once with a quote event on the channel object it has
\* registered for the bucket's reply channel
BroadcastChannelSettled(r) ==
  /\ rq[r].pc = "AwaitingBroadcast"
  /\ WaitSettled(rq[r].wait)
  /\ IF WaitOk(rq[r].wait)
     THEN \E payload \in Payloads, triggerOk \in BOOLEAN,
             echo \in QuotePayloads \cup {NoEcho} :
            LET normalisedRequest ==
                  [bucket |-> rq[r].bucket,
                   from |-> normaliseLeg(payload.from),
                   to |-> normaliseLeg(payload.to)]
                chan == registry[ReplyName(rq[r].bucket)]
                answered == echo # NoEcho
                own == IF answered /\ chan = rq[r].reply THEN echo ELSE NoEcho
            IN /\ answered => triggerOk /\ nEmits < MaxEmits /\ chan # 0
               /\ rq' = [x \in Req |->
                           IF x = r
                           THEN promiseExecutor(rq[r], WaitChan(rq[r].wait),
                                                normalisedRequest, triggerOk,
                                                own)
                           ELSE IF answered /\ ReqListening(x, chan, EvQuote)
                                THEN quoteHandler(rq[x], echo)
                                ELSE rq[x]]
               /\ ob' = [o \in Obs |->
                           IF /\ answered
                              /\ ObsListening(o, chan, EvQuote)
                              /\ ob[o].stopped
                           THEN [ob[o] EXCEPT !.invokedAfterStop = TRUE]
                           ELSE ob[o]]
               /\ nEmits' = IF answered THEN nEmits + 1 ELSE nEmits
               /\ lastOp' = [op |-> "broadcastChannelSettled", id |-> r,
                              echo |-> echo, chan |-> chan,
                              inflight |-> {x \in Req : rq[x].pc = "Published"}]
     ELSE /\ rq' = [rq EXCEPT ![r] =
                      [reject(rq[r], WaitErr(rq[r].wait))
                         EXCEPT !.wait = NoWait]]
          /\ lastOp' = [op |-> "broadcastChannelSettled", id |-> r,
                         echo |-> NoEcho, chan |-> 0, inflight |-> {}]
          /\ UNCHANGED <<ob, nEmits>>
  /\ UNCHANGED <<channels, pendingChannels, att, registry, unsubs,
                 disconnected>>
  /\ UNCHANGED outsideRfq

\* one timer for all calls: when it fires, every armed call times out
RequestTimeout_sharedTimer(r) ==
  /\ rq[r].timer
  /\ ~ContinuationReady
  /\ rq' = [x \in Req |-> IF rq[x].timer THEN timerFired(rq[x]) ELSE rq[x]]
  /\ lastOp' = [op |-> "requestTimeout", id |-> r,
                 pending |-> rq[r].pc = "Published",
                 inflight |-> {x \in Req \ {r} : rq[x].pc = "Published"},
                 cached |-> channels[BroadcastName],
                 registered |-> registry[BroadcastName]]
  /\ UNCHANGED <<channels, pendingChannels, att, registry, unsubs,
                 disconnected, ob, nEmits>>
  /\ UNCHANGED outsideRfq

\* line 168: the request timer fires
RequestTimeout(r) ==
  /\ rq[r].timer
  /\ ~ContinuationReady
  /\ rq' = [rq EXCEPT ![r] = timerFired(rq[r])]
  /\ lastOp' = [op |-> "requestTimeout", id |-> r,
                 pending |-> rq[r].pc = "Published",
                 inflight |-> {x \in Req \ {r} : rq[x].pc = "Published"},
                 cached |-> channels[BroadcastName],
                 registered |-> registry[BroadcastName]]
  /\ UNCHANGED <<channels, pendingChannels, att, registry, unsubs,
                 disconnected, ob, nEmits>>
  /\ UNCHANGED outsideRfq

\* ---- onBucket (rfq.ts 183-213) --------------------------------------------------

\* lines 191, 203: start acquiring the reply channel; the bind is deferred
OnBucket(o) ==
  /\ ob[o].pc = "Idle"
  /\ o > 1 => ob[o - 1].pc # "Idle"
  /\ \E bucket \in {"b1"}, handlers \in {{EvStatus, EvQuote}} :
       /\ getChannel(ReplyName(bucket))
       /\ ob' = [ob EXCEPT ![o] =
                   [@ EXCEPT !.pc = "Waiting", !.bucket = bucket,
                             !.handlers = handlers,
                             !.wait = GetChannelWait(ReplyName(bucket))]]
  /\ lastOp' = [op |-> "onBucket", id |-> o]
  /\ UNCHANGED <<disconnected, rq, nEmits>>
  /\ UNCHANGED outsideRfq

\* lines 203-210: the .then callback binds the handlers on the channel; a
\* failed acquisition binds nothing
OnBucketChannelSettled(o) ==
  /\ ob[o].pc = "Waiting"
  /\ WaitSettled(ob[o].wait)
  /\ ob' = [ob EXCEPT ![o] =
              IF WaitOk(ob[o].wait)
              THEN [@ EXCEPT !.pc = "Attached", !.chan = WaitChan(ob[o].wait),
                             !.bound = ob[o].handlers, !.wait = NoWait]
              ELSE [@ EXCEPT !.pc = "Failed", !.wait = NoWait]]
  /\ lastOp' = [op |-> "onBucketChannelSettled", id |-> o]
  /\ UNCHANGED <<channels, pendingChannels, att, registry, unsubs,
                 disconnected, rq, nEmits>>
  /\ UNCHANGED outsideRfq

\* lines 192-201: unbind the handlers on the channel the cache holds under the
\* name, if it holds one
removeHandlers(obs) ==
  LET existing == channels[ReplyName(obs.bucket)] IN
  IF existing = 0 THEN obs
  ELSE IF existing = obs.chan THEN [obs EXCEPT !.bound = {}]
  ELSE obs

\* the caller calls the function onBucket returned
Stop(o) ==
  /\ ob[o].pc # "Idle"
  /\ ob' = [ob EXCEPT ![o] = [removeHandlers(ob[o]) EXCEPT !.stopped = TRUE]]
  /\ lastOp' = [op |-> "stop", id |-> o]
  /\ UNCHANGED <<channels, pendingChannels, att, registry, unsubs,
                 disconnected, rq, nEmits>>
  /\ UNCHANGED outsideRfq

\* ---- disconnect (rfq.ts 215-222) -----------------------------------------------
\* the names disconnect() passes to pusher.unsubscribe
DisconnectNames == {n \in Names : channels[n] # 0}

\* a disconnect that leaves the channel cache as it is
ClearedChannels_notCleared == channels

\* this.channels.clear()
ClearedChannels == [n \in Names |-> 0]

Disconnect ==
  /\ unsubs' = [n \in Names |->
                  IF n \in DisconnectNames THEN unsubs[n] + 1 ELSE unsubs[n]]
  /\ registry' = [n \in Names |->
                    IF n \in DisconnectNames THEN 0 ELSE registry[n]]
  /\ channels' = ClearedChannels
  /\ pendingChannels' = [n \in Names |-> 0]
  /\ disconnected' = TRUE
  /\ lastOp' = [op |-> "disconnect", again |-> lastOp.op = "disconnect",
                 unsubscribed |-> DisconnectNames]
  /\ UNCHANGED <<att, rq, ob, nEmits>>
  /\ UNCHANGED outsideRfq

\* ---- the transport's events --------------------------------------------------------
Waiting(c) == {a \in Att : att[a].st = "waiting" /\ att[a].chan = c}

\* getChannel's .then callback (lines 233-237), for the attempts in as
SubscriptionThen(as) ==
  /\ att' = [a \in Att |-> IF a \in as THEN [att[a] EXCEPT !.st = "ok"]
                                        ELSE att[a]]
  /\ channels' = [n \in Names |->
                    IF \E a \in as : att[a].name = n
                    THEN att[CHOOSE a \in as : att[a].name = n].chan
                    ELSE channels[n]]
  /\ pendingChannels' = [n \in Names |->
                           IF \E a \in as : att[a].name = n THEN 0
                           ELSE pendingChannels[n]]
  /\ UNCHANGED <<registry, unsubs>>

\* getChannel's .catch callback (lines 238-242), for the attempts in as
SubscriptionCatch(as, message) ==
  /\ att' = [a \in Att |->
               IF a \in as THEN [att[a] EXCEPT !.st = "err", !.err = message]
               ELSE att[a]]
  /\ pendingChannels' = [n \in Names |->
                           IF \E a \in as : att[a].name = n THEN 0
                           ELSE pendingChannels[n]]
  /\ registry' = [n \in Names |->
                    IF \E a \in as : att[a].name = n THEN 0 ELSE registry[n]]
  /\ unsubs' = [n \in Names |->
                  unsubs[n] + Cardinality({a \in as : att[a].name = n})]
  /\ UNCHANGED channels

\* pusher:subscription_succeeded on channel object c: onSuccess of every
\* attempt waiting on it (lines 250-253), then its .then callback
SubscriptionSucceeded(c) ==
  /\ ~ContinuationReady
  /\ Waiting(c) # {}
  /\ SubscriptionThen(Waiting(c))
  /\ lastOp' = [op |-> "subscriptionSucceeded", id |-> c]
  /\ UNCHANGED <<disconnected, rq, ob, nEmits>>
  /\ UNCHANGED outsideRfq

\* pusher:subscription_error on channel object c (lines 254-257)
SubscriptionError(c) ==
  /\ ~ContinuationReady
  /\ Waiting(c) # {}
  /\ SubscriptionCatch(Waiting(c), "subscription error")
  /\ lastOp' = [op |-> "subscriptionError", id |-> c]
  /\ UNCHANGED <<disconnected, rq, ob, nEmits>>
  /\ UNCHANGED outsideRfq

\* the 5000 ms timer of one attempt fires (lines 263-266)
SubscriptionTimeout(a) ==
  /\ att[a].st = "waiting"
  /\ ~ContinuationReady
  /\ SubscriptionCatch({a}, "subscription timeout")
  /\ lastOp' = [op |-> "subscriptionTimeout", id |-> a]
  /\ UNCHANGED <<disconnected, rq, ob, nEmits>>
  /\ UNCHANGED outsideRfq

\* the handler a request bound for an event
requestHandler(req, ev, payload) ==
  IF ev = EvStatus THEN statusHandler(req, payload)
  ELSE IF ev = EvError THEN errorHandler(req, payload)
  ELSE quoteHandler(req, payload)

\* a client-rfq.* event on channel object c: every handler bound for it runs
Emit(c, ev, payload) ==
  /\ nEmits < MaxEmits
  /\ ~ContinuationReady
  /\ \/ \E r \in Req : ReqListening(r, c, ev)
     \/ \E o \in Obs : ObsListening(o, c, ev)
  /\ rq' = [r \in Req |->
              IF ReqListening(r, c, ev) THEN requestHandler(rq[r], ev, payload)
              ELSE rq[r]]
  /\ ob' = [o \in Obs |->
              IF ObsListening(o, c, ev) /\ ob[o].stopped
              THEN [ob[o] EXCEPT !.invokedAfterStop = TRUE]
              ELSE ob[o]]
  /\ nEmits' = nEmits + 1
  /\ lastOp' = [op |-> "emit", chan |-> c, event |-> ev, payload |-> payload,
                 pending |-> {r \in Req : /\ ReqListening(r, c, ev)
                                          /\ rq[r].pc = "Published"},
                 inflight |-> {r \in Req : rq[r].pc = "Published"}]
  /\ UNCHANGED <<channels, pendingChannels, att, registry, unsubs,
                 disconnected>>
  /\ UNCHANGED outsideRfq

\* ---- QuoteTracker (src/unnamed/part_003) ------------------------------------------
QuoteIds == {"q1", "q2"}
Statuses == {"pending", "accepted", "filled", "expired", "rejected"}

\* the quotes a caller may pass to storeQuote
StoredQuotes ==
  [quoteId : QuoteIds, bucket : {"b1"}, solver : {"0xAb"}, status : Statuses,
   expiresAt : 1..MaxExpiry, inputAmount : {"1000"},
   sourceChain : {"ethereum"}, destChain : {"arbitrum"},
   sourceToken : {"0xusdc"}, destTokens : {<<[token |-> "0xdai",
                                              amount |-> 1000]>>}]

\* Map.get of an absent key
NoQuote == [quoteId |-> Undefined]

\* the keys of the Map
StoredIds(store) == {id \in QuoteIds : store[id] # NoQuote}

InitTracker ==
  /\ quotes = [id \in QuoteIds |-> NoQuote]
  /\ now = 0
  /\ cleanupIntervalId = TRUE
  /\ lastT = [op |-> "init"]

\* a store that keeps the entry it already has under the quoteId
storeQuote_keepFirst(store, quote) ==
  IF store[quote.quoteId] # NoQuote THEN store
  ELSE [store EXCEPT ![quote.quoteId] = quote]

\* line 121: this.quotes.set(quote.quoteId, quote)
storeQuote(store, quote) == [store EXCEPT ![quote.quoteId] = quote]

\* line 131
getQuote(store, quoteId) == store[quoteId]

\* lines 280-289
acceptQuote(store, quoteId) ==
  LET quote == store[quoteId] IN
  IF quote = NoQuote THEN [quotes |-> store, ret |-> FALSE]
  ELSE [quotes |-> [store EXCEPT ![quoteId] =
                      [quote EXCEPT !.status = "accepted"]],
        ret |-> TRUE]

\* a fillQuote that fills accepted quotes only
fillQuote_acceptedOnly(store, quoteId) ==
  LET quote == store[quoteId] IN
  IF quote = NoQuote \/ quote.status # "accepted"
  THEN [quotes |-> store, ret |-> FALSE]
  ELSE [quotes |-> [store EXCEPT ![quoteId] =
                      [quote EXCEPT !.status = "filled"]],
        ret |-> TRUE]

\* lines 300-309
fillQuote(store, quoteId) ==
  LET quote == store[quoteId] IN
  IF quote = NoQuote THEN [quotes |-> store, ret |-> FALSE]
  ELSE [quotes |-> [store EXCEPT ![quoteId] =
                      [quote EXCEPT !.status = "filled"]],
        ret |-> TRUE]

\* a rejectQuote that reports success for an unknown id
rejectQuote_alwaysTrue(store, quoteId) ==
  LET quote == store[quoteId] IN
  IF quote = NoQuote THEN [quotes |-> store, ret |-> TRUE]
  ELSE [quotes |-> [store EXCEPT ![quoteId] =
                      [quote EXCEPT !.status = "rejected"]],
        ret |-> TRUE]

\* lines 320-329
rejectQuote(store, quoteId) ==
  LET quote == store[quoteId] IN
  IF quote = NoQuote THEN [quotes |-> store, ret |-> FALSE]
  ELSE [quotes |-> [store EXCEPT ![quoteId] =
                      [quote EXCEPT !.status = "rejected"]],
        ret |-> TRUE]

\* a sweep that also removes the entries expiring right now
cleanupExpiredQuotes_inclusive(store, t) ==
  LET expired == {id \in StoredIds(store) : t >= store[id].expiresAt} IN
  [quotes |-> [id \in QuoteIds |->
                 IF id \in expired THEN NoQuote ELSE store[id]],
   ret |-> Cardinality(expired)]

\* a sweep that marks the entries past their expiresAt instead of removing them
cleanupExpiredQuotes_marksExpired(store, t) ==
  LET expired == {id \in StoredIds(store) : t > store[id].expiresAt} IN
  [quotes |-> [id \in QuoteIds |->
                 IF id \in expired
                 THEN [store[id] EXCEPT !.status = "expired"]
                 ELSE store[id]],
   ret |-> Cardinality(expired)]

\* a sweep that removes pending entries only
cleanupExpiredQuotes_pendingOnly(store, t) ==
  LET expired == {id \in StoredIds(store) :
                    t > store[id].expiresAt /\ store[id].status = "pending"}
  IN [quotes |-> [id \in QuoteIds |->
                    IF id \in expired THEN NoQuote ELSE store[id]],
      ret |-> Cardinality(expired)]

\* lines 381-397, with t the value of Date.now() (line 382)
cleanupExpiredQuotes(store, t) ==
  LET expired == {id \in StoredIds(store) : t > store[id].expiresAt} IN
  [quotes |-> [id \in QuoteIds |->
                 IF id \in expired THEN NoQuote ELSE store[id]],
   ret |-> Cardinality(expired)]

\* lines 337-344
isQuoteExpired(store, t, quoteId) ==
  LET quote == store[quoteId] IN
  IF quote = NoQuote THEN TRUE ELSE t > quote.expiresAt

\* line 352 (the array by its elements)
getAllQuotes(store) == {store[id] : id \in StoredIds(store)}

\* line 362: Map.delete returns whether the key was there
removeQuote(store, quoteId) ==
  [quotes |-> [store EXCEPT ![quoteId] = NoQuote],
   ret |-> store[quoteId] # NoQuote]

\* line 369
clearAll(store) == [id \in QuoteIds |-> NoQuote]

\* statistics that count a pending quote past its expiresAt under expired
\* and under pending
getStats_expiredTwice(store, t) ==
  LET ids == StoredIds(store)
      count(st) == Cardinality({id \in ids : store[id].status = st})
      pendingPast == Cardinality({id \in ids :
                                    /\ t > store[id].expiresAt
                                    /\ store[id].status = "pending"})
  IN [total |-> Cardinality(ids), pending |-> count("pending"),
      accepted |-> count("accepted"), filled |-> count("filled"),
      expired |-> count("expired") + pendingPast,
      rejected |-> count("rejected")]

\* statistics that count every quote under its stored status
getStats_byStoredStatus(store, t) ==
  LET ids == StoredIds(store)
      count(st) == Cardinality({id \in ids : store[id].status = st})
  IN [total |-> Cardinality(ids), pending |-> count("pending"),
      accepted |-> count("accepted"), filled |-> count("filled"),
      expired |-> count("expired"), rejected |-> count("rejected")]

\* lines 419-463, with t the value of Date.now() (line 436)
getStats(store, t) ==
  LET ids == StoredIds(store)
      countedAs(id) ==
        IF t > store[id].expiresAt /\ store[id].status = "pending"
        THEN "expired" ELSE store[id].status
      count(st) == Cardinality({id \in ids : countedAs(id) = st})
  IN [total |-> Cardinality(ids), pending |-> count("pending"),
      accepted |-> count("accepted"), filled |-> count("filled"),
      expired |-> count("expired"), rejected |-> count("rejected")]

StoreQuote(quote) ==
  /\ quotes' = storeQuote(quotes, quote)
  /\ lastT' = [op |-> "storeQuote", quote |-> quote, before |-> quotes]
  /\ UNCHANGED <<now, cleanupIntervalId>>
  /\ UNCHANGED outsideTracker

GetQuote(quoteId) ==
  /\ lastT' = [op |-> "getQuote", quoteId |-> quoteId, before |-> quotes,
               ret |-> getQuote(quotes, quoteId)]
  /\ UNCHANGED <<quotes, now, cleanupIntervalId>>
  /\ UNCHANGED outsideTracker

AcceptQuote(quoteId) ==
  /\ quotes' = acceptQuote(quotes, quoteId).quotes
  /\ lastT' = [op |-> "acceptQuote", quoteId |-> quoteId, before |-> quotes,
               ret |-> acceptQuote(quotes, quoteId).ret]
  /\ UNCHANGED <<now, cleanupIntervalId>>
  /\ UNCHANGED outsideTracker

FillQuote(quoteId) ==
  /\ quotes' = fillQuote(quotes, quoteId).quotes
  /\ lastT' = [op |-> "fillQuote", quoteId |-> quoteId, before |-> quotes,
               ret |-> fillQuote(quotes, quoteId).ret]
  /\ UNCHANGED <<now, cleanupIntervalId>>
  /\ UNCHANGED outsideTracker

RejectQuote(quoteId) ==
  /\ quotes' = rejectQuote(quotes, quoteId).quotes
  /\ lastT' = [op |-> "rejectQuote", quoteId |-> quoteId, before |-> quotes,
               ret |-> rejectQuote(quotes, quoteId).ret]
  /\ UNCHANGED <<now, cleanupIntervalId>>
  /\ UNCHANGED outsideTracker

\* called by the caller
CleanupExpiredQuotes ==
  /\ quotes' = cleanupExpiredQuotes(quotes, now).quotes
  /\ lastT' = [op |-> "cleanupExpiredQuotes", before |-> quotes,
               ret |-> cleanupExpiredQuotes(quotes, now).ret,
               interval |-> FALSE]
  /\ UNCHANGED <<now, cleanupIntervalId>>
  /\ UNCHANGED outsideTracker

\* the callback of the 60000 ms interval (lines 106-108)
IntervalSweep ==
  /\ cleanupIntervalId
  /\ quotes' = cleanupExpiredQuotes(quotes, now).quotes
  /\ lastT' = [op |-> "cleanupExpiredQuotes", before |-> quotes,
               ret |-> cleanupExpiredQuotes(quotes, now).ret,
               interval |-> TRUE]
  /\ UNCHANGED <<now, cleanupIntervalId>>
  /\ UNCHANGED outsideTracker

\* an isQuoteExpired that writes the status expired into a pending entry
IsQuoteExpired_marksExpired(quoteId) ==
  /\ quotes' = IF quotes[quoteId] # NoQuote
                   /\ isQuoteExpired(quotes, now, quoteId)
                   /\ quotes[quoteId].status = "pending"
                THEN [quotes EXCEPT ![quoteId].status = "expired"]
                ELSE quotes
  /\ lastT' = [op |-> "isQuoteExpired", quoteId |-> quoteId,
               before |-> quotes,
               ret |-> isQuoteExpired(quotes, now, quoteId)]
  /\ UNCHANGED <<now, cleanupIntervalId>>
  /\ UNCHANGED outsideTracker

IsQuoteExpired(quoteId) ==
  /\ lastT' = [op |-> "isQuoteExpired", quoteId |-> quoteId,
               before |-> quotes,
               ret |-> isQuoteExpired(quotes, now, quoteId)]
  /\ UNCHANGED <<quotes, now, cleanupIntervalId>>
  /\ UNCHANGED outsideTracker

GetAllQuotes ==
  /\ lastT' = [op |-> "getAllQuotes", before |-> quotes,
               ret |-> getAllQuotes(quotes)]
  /\ UNCHANGED <<quotes, now, cleanupIntervalId>>
  /\ UNCHANGED outsideTracker

GetStats ==
  /\ lastT' = [op |-> "getStats", before |-> quotes,
               ret |-> getStats(quotes, now)]
  /\ UNCHANGED <<quotes, now, cleanupIntervalId>>
  /\ UNCHANGED outsideTracker

RemoveQuote(quoteId) ==
  /\ quotes' = removeQuote(quotes, quoteId).quotes
  /\ lastT' = [op |-> "removeQuote", quoteId |-> quoteId, before |-> quotes,
               ret |-> removeQuote(quotes, quoteId).ret]
  /\ UNCHANGED <<now, cleanupIntervalId>>
  /\ UNCHANGED outsideTracker

ClearAll ==
  /\ quotes' = clearAll(quotes)
  /\ lastT' = [op |-> "clearAll", before |-> quotes]
  /\ UNCHANGED <<now, cleanupIntervalId>>
  /\ UNCHANGED outsideTracker

\* a destroy that leaves the interval set
Destroy_keepsInterval ==
  /\ UNCHANGED cleanupIntervalId
  /\ quotes' = clearAll(quotes)
  /\ lastT' = [op |-> "destroy", before |-> quotes,
               intervalBefore |-> cleanupIntervalId]
  /\ UNCHANGED now
  /\ UNCHANGED outsideTracker

\* lines 406-412: clearInterval when the id is set, then this.quotes.clear()
Destroy ==
  /\ cleanupIntervalId' = FALSE
  /\ quotes' = clearAll(quotes)
  /\ lastT' = [op |-> "destroy", before |-> quotes,
               intervalBefore |-> cleanupIntervalId]
  /\ UNCHANGED now
  /\ UNCHANGED outsideTracker

\* ---- findQuotes ----
\* the truthiness of an optional string: undefined and "" are falsy
Truthy(v) == v # Undefined /\ v # ""

NoCriteria ==
  [bucket |-> Undefined, solver |-> Undefined, sourceChain |-> Undefined,
   destChain |-> Undefined, status |-> Undefined]

\* lines 160-176
Matches(quote, criteria) ==
  /\ ~(Truthy(criteria.bucket) /\ quote.bucket # criteria.bucket)
  /\ ~(/\ Truthy(criteria.solver)
       /\ ToLowerCase(quote.solver) # ToLowerCase(criteria.solver))
  /\ ~(Truthy(criteria.sourceChain) /\ quote.sourceChain # criteria.sourceChain)
  /\ ~(Truthy(criteria.destChain) /\ quote.destChain # criteria.destChain)
  /\ ~(Truthy(criteria.status) /\ quote.status # criteria.status)

\* lines 150-184 (the array by its elements)
findQuotes(store, criteria) ==
  {store[id] : id \in {i \in StoredIds(store) : Matches(store[i], criteria)}}

\* ---- validateOrderMatchesQuote ----
\* the default of the tolerance parameter (line 212), as a fraction
DefaultTolerance == [num |-> 1, den |-> 1000]

Returned(b) == [raised |-> FALSE, ret |-> b]
Raised == [raised |-> TRUE, ret |-> FALSE]

\* BigInt(string) on the decimal strings of the model: a SyntaxError for a
\* string that is not an integer literal
BigIntOfString(s) ==
  CASE s = "1000" -> [raised |-> FALSE, value |-> 1000]
    [] s = "999" -> [raised |-> FALSE, value |-> 999]
    [] s = "1.5" -> [raised |-> TRUE, value |-> 0]
    [] OTHER -> [raised |-> TRUE, value |-> 0]

\* Number(bigint): exact below 2^53
NumberOfBigInt(n) == n

Abs(x) == IF x < 0 THEN 0 - x ELSE x

\* lines 257-260: percentDiff > tolerance, where the quotient by 0 is
\* Infinity for a non-zero diff and NaN (greater than nothing) for diff 0
PercentDiffExceeds(outputAmount, quoteOutputAmount, tolerance) ==
  LET diff == Abs(outputAmount - quoteOutputAmount) IN
  IF quoteOutputAmount = 0 THEN diff # 0
  ELSE diff * tolerance.den > tolerance.num * quoteOutputAmount

\* a validation that looks for each output amount anywhere in destTokens
validateOrderMatchesQuote_anyPosition(store, t, orderRequest, quoteId, tolerance) ==
  LET quote == store[quoteId]
      order == orderRequest.order
  IN IF quote = NoQuote THEN Returned(FALSE)
     ELSE IF t > quote.expiresAt THEN Returned(FALSE)
     ELSE IF Len(order.inputs) = 0 THEN Raised
     ELSE IF BigIntOfString(quote.inputAmount).raised THEN Raised
     ELSE IF order.inputs[1].amount # BigIntOfString(quote.inputAmount).value
          THEN Returned(FALSE)
     ELSE IF Len(order.outputs) # Len(quote.destTokens) THEN Returned(FALSE)
     ELSE Returned(\A i \in 1..Len(order.outputs) :
                     \E j \in 1..Len(quote.destTokens) :
                       ~PercentDiffExceeds(
                          NumberOfBigInt(order.outputs[i].amount),
                          quote.destTokens[j].amount, tolerance))

\* lines 209-269, with t the value of Date.now() (line 221)
validateOrderMatchesQuote(store, t, orderRequest, quoteId, tolerance) ==
  LET quote == store[quoteId]
      order == orderRequest.order
  IN IF quote = NoQuote THEN Returned(FALSE)
     ELSE IF t > quote.expiresAt THEN Returned(FALSE)
     \* line 234: inputs[0] is undefined, reading its amount is a TypeError
     ELSE IF Len(order.inputs) = 0 THEN Raised
     \* line 235
     ELSE IF BigIntOfString(quote.inputAmount).raised THEN Raised
     ELSE IF order.inputs[1].amount # BigIntOfString(quote.inputAmount).value
          THEN Returned(FALSE)
     ELSE IF Len(order.outputs) # Len(quote.destTokens) THEN Returned(FALSE)
     ELSE Returned(\A i \in 1..Len(order.outputs) :
                     ~PercentDiffExceeds(
                        NumberOfBigInt(order.outputs[i].amount),
                        quote.destTokens[i].amount, tolerance))

FindQuotes(criteria) ==
  /\ lastT' = [op |-> "findQuotes", criteria |-> criteria, before |-> quotes,
               ret |-> findQuotes(quotes, criteria)]
  /\ UNCHANGED <<quotes, now, cleanupIntervalId>>
  /\ UNCHANGED outsideTracker

ValidateOrderMatchesQuote(orderRequest, quoteId, tolerance) ==
  /\ lastT' = [op |-> "validateOrderMatchesQuote",
               orderRequest |-> orderRequest, quoteId |-> quoteId,
               tolerance |-> tolerance, before |-> quotes,
               ret |-> validateOrderMatchesQuote(quotes, now, orderRequest,
                                                 quoteId, tolerance)]
  /\ UNCHANGED <<quotes, now, cleanupIntervalId>>
  /\ UNCHANGED outsideTracker

\* the arguments of the two calls next to the other tracker operations
OrderToken(tokenAddress, amount) ==
  [tokenAddress |-> tokenAddress, amount |-> amount]

OrderRequestOf(sourceChainId, inputs, outputs) ==
  [order |-> [sourceChainId |-> sourceChainId, destinationChainId |-> 42161,
              inputs |-> inputs, outputs |-> outputs]]

\* time passes
Tick ==
  /\ now < MaxNow
  /\ now' = now + 1
  /\ lastT' = [op |-> "tick"]
  /\ UNCHANGED <<quotes, cleanupIntervalId>>
  /\ UNCHANGED outsideTracker

NextTracker ==
  \/ \E quote \in StoredQuotes : StoreQuote(quote)
  \/ \E quoteId \in QuoteIds : GetQuote(quoteId)
  \/ \E quoteId \in QuoteIds : AcceptQuote(quoteId)
  \/ \E quoteId \in QuoteIds : FillQuote(quoteId)
  \/ \E quoteId \in QuoteIds : RejectQuote(quoteId)
  \/ CleanupExpiredQuotes
  \/ IntervalSweep
  \/ \E quoteId \in QuoteIds : IsQuoteExpired(quoteId)
  \/ GetAllQuotes
  \/ GetStats
  \/ \E criteria \in {NoCriteria, [NoCriteria EXCEPT !.status = "pending"]} : FindQuotes(criteria)
  \/ \E orderRequest \in {OrderRequestOf(1, inputs, <<OrderToken("0xdai",
          1000)>>) : inputs \in {<<>>, <<OrderToken("0xusdc", 1000)>>}},
          quoteId \in QuoteIds :
       ValidateOrderMatchesQuote(orderRequest, quoteId, DefaultTolerance)
  \/ \E quoteId \in QuoteIds : RemoveQuote(quoteId)
  \/ ClearAll
  \/ Destroy
  \/ Tick

DestToken(amount) == [token |-> "0xdai", amount |-> amount]

NextFind ==
  \/ \E quote \in [quoteId : QuoteIds, bucket : {"b1", "b2"},
          solver : {"0xAb", "0xcd"}, status : {"pending", "accepted"},
          expiresAt : {1}, inputAmount : {"1000"}, sourceChain : {"ethereum",
          "base"}, destChain : {"arbitrum"}, sourceToken : {"0xusdc"},
          destTokens : {<<[token |-> "0xdai",
          amount |-> 1000]>>}] : StoreQuote(quote)
  \/ \E criteria \in [bucket : {Undefined, "", "b1"}, solver : {Undefined,
          "0xAB", "0xcd"}, sourceChain : {Undefined, "ethereum"},
          destChain : {Undefined, "arbitrum", "base"}, status : {Undefined,
          "pending"}] : FindQuotes(criteria)

NextValidate ==
  \/ \E quote \in [quoteId : {"q1"}, bucket : {"b1"}, solver : {"0xAb"},
          status : {"pending"}, expiresAt : 1..MaxExpiry,
          inputAmount : {"1000", "999", "1.5"}, sourceChain : {"ethereum"},
          destChain : {"arbitrum"}, sourceToken : {"0xusdc"},
          destTokens : {<<DestToken(1000)>>, <<DestToken(1000),
          DestToken(2000)>>, <<DestToken(0)>>}] : StoreQuote(quote)
  \/ \E orderRequest \in {OrderRequestOf(sourceChainId, inputs,
          outputs) : sourceChainId \in {1, 10}, inputs \in {<<>>,
          <<OrderToken("0xusdc", 1000)>>, <<OrderToken("0xusdc", 999)>>,
          <<OrderToken("0xweth", 1000)>>}, outputs \in {<<>>,
          <<OrderToken("0xdai", 0)>>, <<OrderToken("0xdai", 1000)>>,
          <<OrderToken("0xdai", 1001)>>, <<OrderToken("0xdai", 1002)>>,
          <<OrderToken("0xdai", 1000), OrderToken("0xdai", 2000)>>,
          <<OrderToken("0xdai", 2000), OrderToken("0xdai", 1000)>>}},
          quoteId \in QuoteIds,
        tolerance \in {DefaultTolerance, [num |-> 0, den |-> 1]} :
       ValidateOrderMatchesQuote(orderRequest, quoteId, tolerance)
  \/ Tick

\* the tracker with its interval and a caller that stores, accepts and
\* destroys
NextSweep ==
  \/ \E quote \in StoredQuotes : StoreQuote(quote)
  \/ \E quoteId \in QuoteIds : AcceptQuote(quoteId)
  \/ IntervalSweep
  \/ Destroy
  \/ Tick

\* ---- iLayerSigningHelper (src/src/index.ts) ---------------------------------
MaxVerifyCalls == 2
SignatureLength == 132

\* viem's isAddress on the addresses of the model
IsAddress(a) == a \in {"0xhub", "0xAlice", "0xBob"}

\* lines 56-83: encodePacked(['address'], ...) throws on a string that is not
\* an address; the hash is taken as injective
getDomainSeparator(orderHubAddress, chainId) ==
  IF IsAddress(orderHubAddress)
  THEN [raised |-> FALSE,
        value |-> [chainId |-> chainId, verifyingContract |-> orderHubAddress]]
  ELSE [raised |-> TRUE,
        value |-> [chainId |-> chainId, verifyingContract |-> orderHubAddress]]

\* lines 95-176, the hash taken as injective
hashOrderRequest(orderRequest) == [requestOf |-> orderRequest]

\* lines 301-307
Digest(domainSeparator, requestHash) ==
  [domainSeparator |-> domainSeparator, requestHash |-> requestHash]

\* a signature string: whether it starts with 0x, its length, and what a
\* recovery would find in it (the signing account and the signed digest)
SignatureBy(signer, digest, startsWith0x, length) ==
  [signer |-> signer, digest |-> digest, startsWith0x |-> startsWith0x,
   length |-> length]

AliceDigest ==
  Digest(getDomainSeparator("0xhub", 1).value, hashOrderRequest([nonce |-> 1]))

InitSigning == verifyCalls = <<>> /\ signCalls = <<>>

\* lines 283-322
verifySignature(orderRequest, signature, expectedSigner, chainId, orderHubAddress) ==
  LET domainSeparator == getDomainSeparator(orderHubAddress, chainId)
      requestHash == hashOrderRequest(orderRequest)
      digest == Digest(domainSeparator.value, requestHash)
  IN \* lines 319-321: whatever is thrown in the try block yields false
     IF domainSeparator.raised THEN FALSE
     \* lines 310-312
     ELSE IF ~signature.startsWith0x \/ signature.length # SignatureLength
          THEN FALSE
     \* line 318
     ELSE TRUE

VerifySignature(orderRequest, signature, expectedSigner, chainId, orderHubAddress) ==
  /\ Len(verifyCalls) < MaxVerifyCalls
  /\ verifyCalls' =
       Append(verifyCalls,
              [ret |-> verifySignature(orderRequest, signature,
                                       expectedSigner, chainId,
                                       orderHubAddress),
               orderRequest |-> orderRequest,
               orderHubAddress |-> orderHubAddress, chainId |-> chainId,
               signature |-> signature, expectedSigner |-> expectedSigner])
  /\ UNCHANGED signCalls
  /\ UNCHANGED outsideSigning

\* ---- signOrderRequest (index.ts 227-267) -----------------------------------
MaxSignCalls == 2

\* no signature: the promise was rejected
NoSignature == SignatureBy(Undefined, AliceDigest, FALSE, 0)

\* lines 263-266
WrapSigningError(isError, message) ==
  "Failed to sign order request: "
    \o (IF isError THEN message ELSE "Unknown error")

\* how a signOrderRequest call settles: rejected with a message or resolved
\* with a signature, and how often the signer was asked to sign
Settled(raised, message, signature, asked) ==
  [raised |-> raised, message |-> message, signature |-> signature,
   asked |-> asked]

\* a signOrderRequest that asks the signer whether or not an account is bound
signOrderRequest_ignoresAccount(orderRequest, walletClient, chainId, orderHubAddress) ==
  LET domainSeparator == getDomainSeparator(orderHubAddress, chainId)
      digest == Digest(domainSeparator.value, hashOrderRequest(orderRequest))
  IN IF domainSeparator.raised
     THEN Settled(TRUE, WrapSigningError(TRUE, "invalid address"),
                  NoSignature, 0)
     ELSE IF walletClient.failure # "none"
     THEN Settled(TRUE,
                  WrapSigningError(walletClient.failure = "Error",
                                   walletClient.message),
                  NoSignature, 1)
     ELSE Settled(FALSE, "",
                  SignatureBy(walletClient.account, digest, TRUE,
                              SignatureLength), 1)

\* lines 227-267
signOrderRequest(orderRequest, walletClient, chainId, orderHubAddress) ==
  LET domainSeparator == getDomainSeparator(orderHubAddress, chainId)
      digest == Digest(domainSeparator.value, hashOrderRequest(orderRequest))
  IN \* lines 234-236
     IF walletClient.account = Undefined
     THEN Settled(TRUE,
                  WrapSigningError(TRUE, "Wallet client must have an account"),
                  NoSignature, 0)
     \* lines 239-242: encodePacked throws on a string that is not an address
     ELSE IF domainSeparator.raised
     THEN Settled(TRUE, WrapSigningError(TRUE, "invalid address"),
                  NoSignature, 0)
     \* lines 257-260: the signer throws
     ELSE IF walletClient.failure # "none"
     THEN Settled(TRUE,
                  WrapSigningError(walletClient.failure = "Error",
                                   walletClient.message),
                  NoSignature, 1)
     \* line 262
     ELSE Settled(FALSE, "",
                  SignatureBy(walletClient.account, digest, TRUE,
                              SignatureLength), 1)

SignOrderRequest(orderRequest, walletClient, chainId, orderHubAddress) ==
  /\ Len(signCalls) < MaxSignCalls
  /\ signCalls' =
       Append(signCalls,
              [ret |-> signOrderRequest(orderRequest, walletClient, chainId,
                                        orderHubAddress),
               orderRequest |-> orderRequest,
               orderHubAddress |-> orderHubAddress, chainId |-> chainId,
               walletClient |-> walletClient])
  /\ UNCHANGED verifyCalls
  /\ UNCHANGED outsideSigning

NextSign ==
  \E orderRequest \in {[nonce |-> 1], [nonce |-> 2]},
     message \in {"User rejected the request"},
     failure \in {"none", "Error", "other"},
     account \in {Undefined, "0xAlice"},
     chainId \in {1}, orderHubAddress \in {"0xhub", "hub"} :
    SignOrderRequest(orderRequest,
                     [message |-> message, failure |-> failure,
                      account |-> account],
                     chainId, orderHubAddress)

NextSigning ==
  \E orderRequest \in {[nonce |-> 1], [nonce |-> 2]},
          signature \in {SignatureBy("0xAlice", AliceDigest, TRUE,
          SignatureLength), SignatureBy("0xAlice", AliceDigest, FALSE,
          SignatureLength), SignatureBy("0xAlice", AliceDigest, TRUE,
          SignatureLength - 2)},
     expectedSigner \in {"0xAlice", "0xBob"}, chainId \in {1},
     orderHubAddress \in {"0xhub", "hub"} :
    VerifySignature(orderRequest, signature, expectedSigner, chainId,
                    orderHubAddress)

\* ---- iLayerContractHelper (src/src/modules/evm.ts) --------------------------
MaxEvmCalls == 1

\* hex strings are sequences of characters
Cycle(chars, n) == [i \in 1..n |-> chars[((i - 1) % Len(chars)) + 1]]

HexChars ==
  {"0", "1", "2", "3", "4", "5", "6", "7", "8", "9",
   "a", "b", "c", "d", "e", "f", "A", "B", "C", "D", "E", "F"}

\* String.prototype.startsWith("0x")
StartsWith0x(str) == Len(str) >= 2 /\ str[1] = "0" /\ str[2] = "x"

\* String.prototype.slice(start) with 0 <= start
Slice(str, start) == SubSeq(str, start + 1, Len(str))

\* String.prototype.padStart(targetLength, "0")
PadStart(str, targetLength) ==
  IF Len(str) >= targetLength THEN str
  ELSE [i \in 1..(targetLength - Len(str)) |-> "0"] \o str

\* viem's pad on a hex string: strip the 0x, throw when the digits exceed
\* size bytes, else left-pad the digits with zeros and put the 0x back
Pad(hex, size) ==
  LET digits == IF StartsWith0x(hex) THEN Slice(hex, 2) ELSE hex
  IN IF Len(digits) > size * 2
     THEN [raised |-> TRUE, value |-> hex]
     ELSE [raised |-> FALSE,
           value |-> <<"0", "x">> \o PadStart(digits, size * 2)]

\* the address of the README example
ReadmeAddress ==
  <<"0", "x", "1", "2", "3", "4", "5", "6", "7", "8", "9", "0", "a", "b",
  "c", "d", "e", "f", "1", "2", "3", "4", "5", "6", "7", "8", "9", "0",
  "a", "b", "c", "d", "e", "f", "1", "2", "3", "4", "5", "6", "7", "8">>

FormatInputs ==
  {ReadmeAddress, <<"0", "x">> \o Cycle(<<"a", "B">>, 40), <<"0",
          "x">> \o Cycle(<<"0">>, 40), <<"0", "x">> \o Cycle(<<"f", "F",
          "9">>, 40)}
    \cup {<<"0", "x">> \o Cycle(<<"0", "1">>, 64),
          <<"0", "x">> \o Cycle(<<"7">>, 66)}

\* lines 107-109
formatAddressToBytes32(addr) == Pad(addr, 32)

\* lines 111-113
formatBytes32ToAddress(paddedAddr) == Slice(paddedAddr, 26)

InitEvm == lastE = [op |-> "init"] /\ nCalls = 0

\* the README's use of the two helpers: encode an address, decode the result
FormatAddress(address) ==
  LET bytes32address == formatAddressToBytes32(address)
  IN /\ nCalls < MaxEvmCalls
     /\ nCalls' = nCalls + 1
     /\ lastE' = [op |-> "formatAddress",
                  raised |-> bytes32address.raised, address |-> address,
                  bytes32address |-> bytes32address.value,
                  formattedAddress |->
                    IF bytes32address.raised THEN <<>>
                    ELSE formatBytes32ToAddress(bytes32address.value)]
     /\ UNCHANGED outsideEvm

\* ---- createOrder (evm.ts 15-74) ----------------------------------------------
MaxDeadline == 3

\* line 126: /^0x[0-9a-fA-F]{64}$/.test(addr)
checkAddress(addr) ==
  /\ Len(addr) = 66
  /\ addr[1] = "0"
  /\ addr[2] = "x"
  /\ \A i \in 3..66 : addr[i] \in HexChars

\* a padded address, and strings that are not: a native-size address, 66 hex
\* characters without the prefix, a character that is no hex digit
PaddedAddress == Pad(ReadmeAddress, 32).value
UnprefixedAddress == Cycle(<<"a", "1">>, 66)
NonHexAddress == <<"0", "x">> \o Cycle(<<"0">>, 63) \o <<"g">>

\* types.ts 16-36
CreateOrderRequest(user, recipient, filler, inputs, outputs, primaryFillerDeadline, deadline) ==
  [order |-> [inputs |-> inputs, outputs |-> outputs, user |-> user,
              recipient |-> recipient, filler |-> filler,
              primaryFillerDeadline |-> primaryFillerDeadline,
              deadline |-> deadline],
   nonce |-> 1, deadline |-> deadline]

\* what createOrder returns or throws
NoData == [functionName |-> Undefined]
Threw(message) == [raised |-> TRUE, message |-> message, data |-> NoData]

\* the index of the first string of a sequence that fails checkAddress, 0 if
\* there is none
FirstInvalid(addrs) ==
  IF \A i \in DOMAIN addrs : checkAddress(addrs[i]) THEN 0
  ELSE CHOOSE i \in DOMAIN addrs :
         /\ ~checkAddress(addrs[i])
         /\ \A j \in 1..(i - 1) : checkAddress(addrs[j])

\* a createOrder that lets the two deadlines be equal
createOrder_allowsEqualDeadlines(orderRequest, dateNow) ==
  LET order == orderRequest.order
      tokens == order.inputs \o order.outputs
      nowSec == dateNow \div 1000
  IN IF \/ FirstInvalid(<<order.user, order.recipient, order.filler>>) # 0
        \/ FirstInvalid([i \in DOMAIN tokens |-> tokens[i].tokenAddress]) # 0
        \/ order.primaryFillerDeadline <= nowSec
        \/ order.deadline <= nowSec
        \/ order.primaryFillerDeadline > order.deadline
     THEN Threw("createOrder")
     ELSE [raised |-> FALSE, message |-> "",
           data |-> [functionName |-> "createOrder", args |-> orderRequest]]

\* lines 15-74
createOrder(orderRequest, dateNow) ==
  LET order == orderRequest.order
      names == <<"user", "recipient", "filler">>
      badAddr == FirstInvalid(<<order.user, order.recipient, order.filler>>)
      tokens == order.inputs \o order.outputs
      badToken ==
        FirstInvalid([i \in DOMAIN tokens |-> tokens[i].tokenAddress])
      \* line 50
      nowSec == dateNow \div 1000
  IN \* lines 32-40
     IF badAddr # 0
     THEN Threw(names[badAddr]
                  \o " address is not a valid bytes32-padded string")
     \* lines 42-48: idx counts over inputs followed by outputs
     ELSE IF badToken # 0
     THEN Threw("tokenAddress at "
                  \o (IF badToken <= Len(order.inputs) THEN "inputs"
                      ELSE "outputs")
                  \o "[" \o NumberToString(badToken - 1)
                  \o "] is not a valid bytes32-padded string")
     \* lines 51-53
     ELSE IF order.primaryFillerDeadline <= nowSec
     THEN Threw("primaryFillerDeadline must be in the future")
     \* lines 54-56
     ELSE IF order.deadline <= nowSec
     THEN Threw("deadline must be in the future")
     \* lines 57-61
     ELSE IF order.primaryFillerDeadline >= order.deadline
     THEN Threw("primaryFillerDeadline must be strictly less than the "
                  \o "overall order deadline")
     \* lines 63-73
     ELSE [raised |-> FALSE, message |-> "",
           data |-> [functionName |-> "createOrder", args |-> orderRequest]]

CreateOrder(orderRequest, dateNow) ==
  /\ nCalls < MaxEvmCalls
  /\ nCalls' = nCalls + 1
  /\ lastE' = [op |-> "createOrder",
               ret |-> createOrder(orderRequest, dateNow),
               orderRequest |-> orderRequest, dateNow |-> dateNow]
  /\ UNCHANGED outsideEvm

\* ---- submitOrderGasless (evm.ts 209-274) -------------------------------------
GaslessSignatureLength == 132
GaslessOrderIdLength == 66

\* a hex string argument: whether it starts with 0x, and its length
HexString(startsWith0x, length) ==
  [startsWith0x |-> startsWith0x, length |-> length]

\* an order request whose integers are bigints (types.ts 32-36) or numbers
\* (the guide's example)
GaslessRequest(kind) ==
  [order |-> [deadline |-> [kind |-> kind, num |-> 2]],
   nonce |-> [kind |-> kind, num |-> 1],
   deadline |-> [kind |-> kind, num |-> 2]]

\* what fetch meets: no response at all, or a response with its status, its
\* text and the fields of its JSON body (success: "true", "false" or
\* "missing"; error: "" when the body has none)
HttpResponse(arrived, status, text, success, error) ==
  [status |-> status, arrived |-> arrived, text |-> text,
   body |-> [error |-> error, success |-> success, txHash |-> "0xtx",
             orderId |-> "0xid"]]

\* JSON.stringify throws a TypeError on a bigint
HasBigInt(body) ==
  \/ body.order.deadline.kind = "bigint"
  \/ body.nonce.kind = "bigint"
  \/ body.requestDeadline.kind = "bigint"

\* how a submitOrderGasless call settles, and the HTTP requests it sent; what
\* is thrown in the try block is rethrown with a prefix (lines 269-273)
NoReceipt == [success |-> FALSE, txHash |-> Undefined, orderId |-> Undefined]
SubmitFailed(message, requests) ==
  [raised |-> TRUE,
   message |-> "Failed to submit gasless order: " \o message,
   value |-> NoReceipt, requests |-> requests]

\* lines 230-247: the request sent to the bot; botEndpoint is a URL (origin)
\* with or without a slash at its end
FetchRequest(orderRequest, signature, orderId, botEndpoint) ==
  [body |-> [order |-> orderRequest.order, nonce |-> orderRequest.nonce,
             signature |-> signature, orderId |-> orderId,
             requestDeadline |-> orderRequest.deadline],
   url |-> botEndpoint.origin \o "/order-creation/createOrderGasless",
   method |-> "POST"]

\* lines 249-268: what the call does with the response
HandleResponse(response, requests) ==
  \* line 235: fetch rejects
  IF ~response.arrived THEN SubmitFailed("fetch failed", requests)
  \* lines 249-254: Response.ok
  ELSE IF response.status \notin 200..299
  THEN SubmitFailed("Bot rejected order ("
                      \o NumberToString(response.status) \o "): "
                      \o response.text, requests)
  \* lines 258-262
  ELSE IF response.body.success # "true"
  THEN SubmitFailed("Order submission failed: "
                      \o (IF response.body.error = "" THEN "Unknown error"
                          ELSE response.body.error), requests)
  \* lines 264-268
  ELSE [raised |-> FALSE, message |-> "",
        value |-> [success |-> TRUE, txHash |-> response.body.txHash,
                   orderId |-> response.body.orderId],
        requests |-> requests]

\* a submitOrderGasless that does not look at the orderId
submitOrderGasless_anyOrderId(orderRequest, signature, orderId, botEndpoint, response) ==
  LET request == FetchRequest(orderRequest, signature, orderId, botEndpoint)
  IN IF ~signature.startsWith0x \/ signature.length # GaslessSignatureLength
     THEN SubmitFailed("Invalid signature format (expected 65 bytes hex)",
                       <<>>)
     ELSE IF HasBigInt(request.body)
     THEN SubmitFailed("Do not know how to serialize a BigInt", <<>>)
     ELSE HandleResponse(response, <<request>>)

\* a submitOrderGasless that takes every 2xx response for a success
submitOrderGasless_anyBody(orderRequest, signature, orderId, botEndpoint, response) ==
  LET request == FetchRequest(orderRequest, signature, orderId, botEndpoint)
  IN IF ~signature.startsWith0x \/ signature.length # GaslessSignatureLength
     THEN SubmitFailed("Invalid signature format (expected 65 bytes hex)",
                       <<>>)
     ELSE IF ~orderId.startsWith0x \/ orderId.length # GaslessOrderIdLength
     THEN SubmitFailed("Invalid orderId format (expected 32 bytes hex)", <<>>)
     ELSE IF HasBigInt(request.body)
     THEN SubmitFailed("Do not know how to serialize a BigInt", <<>>)
     ELSE IF response.arrived /\ response.status \in 200..299
     THEN [raised |-> FALSE, message |-> "",
           value |-> [success |-> TRUE, txHash |-> response.body.txHash,
                      orderId |-> response.body.orderId],
           requests |-> <<request>>]
     ELSE HandleResponse(response, <<request>>)

\* lines 209-274
submitOrderGasless(orderRequest, signature, orderId, botEndpoint, response) ==
  LET request == FetchRequest(orderRequest, signature, orderId, botEndpoint)
  IN \* lines 221-223
     IF ~signature.startsWith0x \/ signature.length # GaslessSignatureLength
     THEN SubmitFailed("Invalid signature format (expected 65 bytes hex)",
                       <<>>)
     \* lines 225-227
     ELSE IF ~orderId.startsWith0x \/ orderId.length # GaslessOrderIdLength
     THEN SubmitFailed("Invalid orderId format (expected 32 bytes hex)", <<>>)
     \* lines 240-246: JSON.stringify runs before fetch is called
     ELSE IF HasBigInt(request.body)
     THEN SubmitFailed("Do not know how to serialize a BigInt", <<>>)
     ELSE HandleResponse(response, <<request>>)

SubmitOrderGasless(orderRequest, signature, orderId, botEndpoint, response) ==
  /\ nCalls < MaxEvmCalls
  /\ nCalls' = nCalls + 1
  /\ lastE' = [op |-> "submitOrderGasless",
               ret |-> submitOrderGasless(orderRequest, signature, orderId,
                                          botEndpoint, response),
               orderRequest |-> orderRequest, signature |-> signature,
               orderId |-> orderId, botEndpoint |-> botEndpoint,
               response |-> response]
  /\ UNCHANGED outsideEvm

NextEvm ==
  \/ \E address \in FormatInputs : FormatAddress(address)
  \/ \E user \in {PaddedAddress, ReadmeAddress}, recipient \in {PaddedAddress,
          UnprefixedAddress}, filler \in {PaddedAddress, NonHexAddress},
        inputs \in {<<[tokenAddress |-> PaddedAddress]>>,
                <<[tokenAddress |-> UnprefixedAddress]>>},
                outputs \in {<<[tokenAddress |-> PaddedAddress]>>,
                <<[tokenAddress |-> PaddedAddress], [tokenAddress |-> NonHexAddress]>>},
        primaryFillerDeadline \in 0..MaxDeadline, deadline \in 0..MaxDeadline,
        dateNow \in {999, 1000} :
       CreateOrder(CreateOrderRequest(user, recipient, filler, inputs,
                                      outputs, primaryFillerDeadline,
                                      deadline), dateNow)
  \/ \E kind \in {"bigint", "number"}, signature \in {HexString(TRUE,
          GaslessSignatureLength), HexString(FALSE, GaslessSignatureLength),
          HexString(TRUE, GaslessSignatureLength - 2)},
        orderId \in {HexString(TRUE, GaslessOrderIdLength), HexString(FALSE,
                GaslessOrderIdLength), HexString(TRUE,
                GaslessOrderIdLength - 2)}, trailingSlash \in BOOLEAN,
        arrived \in BOOLEAN, status \in {200, 400, 500},
        success \in {"true", "false", "missing"},
        error \in {"Order does not match quote", ""} :
       SubmitOrderGasless(GaslessRequest(kind), signature, orderId,
                          [origin |-> "https://bot.example.com",
                           trailingSlash |-> trailingSlash],
                          HttpResponse(arrived, status, "Quote expired",
                                       success, error))

\* ---- the specification --------------------------------------------------------
NextRfq ==
  \/ \E r \in Req : Calls < MaxCalls /\ RequestQuote(r)
  \/ \E r \in Req : ReplyChannelSettled(r)
  \/ \E r \in Req : BroadcastChannelSettled(r)
  \/ \E r \in Req : RequestTimeout(r)
  \/ \E o \in Obs : Calls < MaxCalls /\ OnBucket(o)
  \/ \E o \in Obs : OnBucketChannelSettled(o)
  \/ \E o \in Obs : Stop(o)
  \/ Disconnect
  \/ \E c \in Att : SubscriptionSucceeded(c)
  \/ \E c \in Att : SubscriptionError(c)
  \/ \E a \in Att : SubscriptionTimeout(a)
  \/ \E c \in Att, ev \in ReplyEvents :
       \E payload \in PayloadsOf(ev) : Emit(c, ev, payload)

\* channel acquisition alone: the calls, the subscription events, disconnect
NextAcquire ==
  \/ \E r \in Req : Calls < MaxAcquireCalls /\ RequestQuote(r)
  \/ \E r \in Req : ReplyChannelSettled(r)
  \/ \E r \in Req : BroadcastChannelSettled(r)
  \/ \E o \in Obs : Calls < MaxAcquireCalls /\ OnBucket(o)
  \/ \E o \in Obs : OnBucketChannelSettled(o)
  \/ Disconnect
  \/ \E c \in Att : SubscriptionSucceeded(c)
  \/ \E c \in Att : SubscriptionError(c)
  \/ \E a \in Att : SubscriptionTimeout(a)

\* the subscribe calls the calls made so far may still need: two per
\* requestQuote (lines 127-128), one per onBucket (line 203)
AttemptsReserved ==
  2 * Cardinality({r \in Req : rq[r].pc # "Idle"})
    + Cardinality({o \in Obs : ob[o].pc # "Idle"})

\* every call admitted can run to its end within the attempts of the model
NextTerminate ==
  \/ \E r \in Req : AttemptsReserved + 2 <= MaxAtt /\ RequestQuote(r)
  \/ \E r \in Req : ReplyChannelSettled(r)
  \/ \E r \in Req : BroadcastChannelSettled(r)
  \/ \E r \in Req : RequestTimeout(r)
  \/ \E o \in Obs : AttemptsReserved + 1 <= MaxAtt /\ OnBucket(o)
  \/ \E o \in Obs : OnBucketChannelSettled(o)
  \/ \E o \in Obs : Stop(o)
  \/ Disconnect
  \/ \E c \in Att : SubscriptionSucceeded(c)
  \/ \E c \in Att : SubscriptionError(c)
  \/ \E a \in Att : SubscriptionTimeout(a)
  \/ \E c \in Att, ev \in ReplyEvents :
       \E payload \in PayloadsOf(ev) : Emit(c, ev, payload)

Init == InitRfq /\ InitTracker /\ InitSigning /\ InitEvm
SpecRfq == Init /\ [][NextRfq]_vars
SpecAcquire == Init /\ [][NextAcquire]_vars

\* timers fire (setTimeout, lines 168 and 263) and promise reactions run
\* (lines 127, 128, 203); the transport and the caller owe nothing
SpecTerminate ==
  /\ Init
  /\ [][NextTerminate]_vars
  /\ \A r \in Req : /\ WF_vars(ReplyChannelSettled(r))
                     /\ WF_vars(BroadcastChannelSettled(r))
                     /\ WF_vars(RequestTimeout(r))
  /\ \A o \in Obs : WF_vars(OnBucketChannelSettled(o))
  /\ \A a \in Att : WF_vars(SubscriptionTimeout(a))

SpecTracker == Init /\ [][NextTracker]_vars
SpecFind == Init /\ [][NextFind]_vars
SpecValidate == Init /\ [][NextValidate]_vars
SpecSweep == Init /\ [][NextSweep]_vars /\ WF_vars(IntervalSweep)
SpecSigning == Init /\ [][NextSigning]_vars
SpecSign == Init /\ [][NextSign]_vars
SpecEvm == Init /\ [][NextEvm]_vars

\* ---- the claims ---------------------------------------------------------------
\* the last step delivered event ev
Delivered(ev) == lastOp.op = "emit" /\ lastOp.event = ev

C2_ResultCarriesQuotesField ==
  Delivered(EvQuote)
    => \A r \in lastOp.pending :
         /\ rq[r].pc = "Resolved"
         /\ "quotes" \in DOMAIN rq[r].result
         /\ rq[r].result = [bucket |-> rq[r].published.bucket,
                            quotes |-> lastOp.payload]

\* C3: when the request timer of a published, still pending call fires, the
\* call rejects with the timeout error, and from then on none of its three
\* listeners is bound on the reply channel.
TimedOut(req) == req.pc = "Rejected" /\ req.error = "RFQ timeout"

C3_TimeoutRejectsAndUnbinds ==
  \A r \in Req :
    /\ (lastOp.op = "requestTimeout" /\ lastOp.id = r /\ lastOp.pending)
         => TimedOut(rq[r])
    /\ TimedOut(rq[r]) => rq[r].bound = {}

\* a call timed out, and an event arrived on its reply channel afterwards
C3_Witness ==
  \E r \in Req :
    /\ TimedOut(rq[r])
    /\ rq[r].published.bucket = rq[r].bucket
    /\ rq[r].bound = {}
    /\ lastOp.op = "emit"
    /\ lastOp.chan = rq[r].reply

\* C4: for every call terminated by a quote, an error event, a failed status
\* or the timer, cleanup has run exactly once, its listeners are unbound and
\* its timer is cleared, whatever follows; cleanup never runs twice.
TerminatedByEvent(req) ==
  \/ req.pc = "Resolved"
  \/ /\ req.pc = "Rejected"
     /\ req.error \notin {"subscription error", "subscription timeout",
                           "publish failed"}

C4_CleanupExactlyOnce ==
  \A r \in Req :
    /\ rq[r].cleanups <= 1
    /\ TerminatedByEvent(rq[r])
         => rq[r].cleanups = 1 /\ rq[r].bound = {} /\ ~rq[r].timer

\* a call terminated by a quote, and a later event arrived on its reply
\* channel without reaching it
C4_Witness ==
  \E r \in Req :
    /\ rq[r].pc = "Resolved"
    /\ rq[r].cleanups = 1
    /\ lastOp.op = "emit"
    /\ lastOp.chan = rq[r].reply
    /\ r \notin lastOp.pending
    /\ nEmits = 2

\* C5: while a subscription attempt for a name is in flight, or the name is
\* cached, no getChannel call issues a new transport subscribe for the name.
InFlight(n) == \E a \in Att : att[a].st = "waiting" /\ att[a].name = n

C5_SingleSubscriptionAttempt ==
  [][\A n \in Names :
       (InFlight(n) \/ channels[n] # 0)
         => \A a \in Att : att[a].st = "free" => att'[a].name # n]_vars

\* C6: when a subscription attempt for a name ends with an error or with the
\* confirmation timeout, the acquisition rejects, the name is in neither the
\* channel cache nor the pending cache, an unsubscribe for the name has been
\* issued, and so the next getChannel for the name subscribes afresh.
C6_FailedAcquisitionClearsName ==
  [][\A a \in Att :
       (att[a].st = "waiting" /\ att'[a].st = "err")
         => /\ att'[a].err \in {"subscription error", "subscription timeout"}
            /\ channels'[att[a].name] = 0
            /\ pendingChannels'[att[a].name] = 0
            /\ unsubs'[att[a].name] > unsubs[att[a].name]]_vars

\* C7: when disconnect() returns, every name the helper subscribed to and has
\* not unsubscribed since is unsubscribed, both caches are empty and the
\* transport's disconnect has been called.
C7_DisconnectUnsubscribesEverything ==
  lastOp.op = "disconnect"
    => /\ \A n \in Names : registry[n] = 0
       /\ \A n \in Names : channels[n] = 0 /\ pendingChannels[n] = 0
       /\ disconnected

\* C8: a second disconnect() directly after the first issues no further
\* unsubscribe and leaves both caches as the first call left them: empty.
C8_DisconnectIdempotent ==
  (lastOp.op = "disconnect" /\ lastOp.again)
    => /\ lastOp.unsubscribed = {}
       /\ \A n \in Names : channels[n] = 0 /\ pendingChannels[n] = 0
       /\ disconnected

\* the second call came with a request in flight, after a first call that
\* did unsubscribe a channel
C8_Witness ==
  /\ lastOp.op = "disconnect"
  /\ lastOp.again
  /\ \E n \in Names : unsubs[n] > 0
  /\ \E r \in Req : rq[r].pc \in {"AwaitingBroadcast", "Published"}

\* C9: once the function onBucket returned has been called, none of the
\* handlers is bound to the reply channel and none is invoked by a later event.
C9_StopDetachesForGood ==
  \A o \in Obs :
    ob[o].stopped => ob[o].bound = {} /\ ~ob[o].invokedAfterStop

\* C10: a status event received while the call is pending is forwarded to
\* onStatus; a stage equal to "failed" whatever its case rejects the call with
\* the note as the message (a fixed message when the status has no note); any
\* other stage leaves the call pending with its listeners and timer in place.
FailedStages == {"failed", "FAILED", "Failed"}

C10_StatusHandling ==
  Delivered(EvStatus)
    => \A r \in lastOp.pending :
         /\ rq[r].callbacks => rq[r].statusSeen = lastOp.payload
         /\ IF lastOp.payload.stage \in FailedStages
            THEN /\ rq[r].pc = "Rejected"
                 /\ rq[r].error = IF lastOp.payload.note = Undefined
                                  THEN "RFQ failed with unknown error"
                                  ELSE lastOp.payload.note
                 /\ rq[r].bound = {}
                 /\ ~rq[r].timer
            ELSE /\ rq[r].pc = "Published"
                 /\ rq[r].bound = ReplyEvents
                 /\ rq[r].timer

\* an upper-case FAILED status without a note rejected a call, after an
\* earlier status had left it pending
C10_Witness ==
  /\ Delivered(EvStatus)
  /\ nEmits = 2
  /\ lastOp.payload.stage = "FAILED"
  /\ \E r \in lastOp.pending :
       /\ rq[r].callbacks
       /\ rq[r].statusSeen = lastOp.payload
       /\ rq[r].pc = "Rejected"
       /\ rq[r].error = "RFQ failed with unknown error"

\* C11: a client-rfq.error event received while the call is pending is first
\* forwarded to onError (when given), then rejects the call with the event's
\* message; a call rejected with that message never resolves afterwards.
C11_ErrorEventRejects ==
  /\ Delivered(EvError)
       => \A r \in lastOp.pending :
            /\ rq[r].callbacks
                 => /\ rq[r].errorSeen = lastOp.payload.message
                    /\ rq[r].errorSeenPending
            /\ rq[r].pc = "Rejected"
            /\ rq[r].error = lastOp.payload.message
  /\ \A r \in Req :
       rq[r].error \in {e.message : e \in ErrorPayloads}
         => rq[r].pc = "Rejected" /\ rq[r].result = NoResult

\* an error event rejected a call that had passed onError, and a quote event
\* arrived on its reply channel afterwards
C11_Witness ==
  /\ Delivered(EvQuote)
  /\ \E r \in Req :
       /\ rq[r].reply = lastOp.chan
       /\ rq[r].callbacks
       /\ rq[r].errorSeen = "boom"
       /\ rq[r].errorSeenPending
       /\ rq[r].pc = "Rejected"
       /\ rq[r].error = "boom"

\* C12: the bucket is options.bucket if given, else payload.bucket if given,
\* else the generated token; the call acquires the channel named
\* private-rfq.<bucket> as its reply channel and private-rfq.broadcast as its
\* broadcast channel, and the request it publishes carries that bucket.
\* (Whether a channel taken from the cache is still subscribed at the
\* transport is the matter of C6 and C7.)
ChanName(c) == att[c].name

\* the call awaits the channel of this name
Awaits(req, name) ==
  IF req.wait.kind = "chan" THEN ChanName(req.wait.id) = name
  ELSE req.wait.kind = "att" /\ att[req.wait.id].name = name

C12_BucketCorrelation ==
  /\ lastOp.op = "requestQuote"
       => /\ rq[lastOp.id].bucket =
               (IF lastOp.optBucket # Undefined THEN lastOp.optBucket
                ELSE IF lastOp.payBucket # Undefined THEN lastOp.payBucket
                ELSE lastOp.generated)
          /\ Awaits(rq[lastOp.id], ReplyName(rq[lastOp.id].bucket))
  /\ \A r \in Req :
       /\ rq[r].pc = "AwaitingReply"
            => Awaits(rq[r], ReplyName(rq[r].bucket))
       /\ rq[r].pc = "AwaitingBroadcast"
            => /\ Awaits(rq[r], BroadcastName)
               /\ ChanName(rq[r].reply) = ReplyName(rq[r].bucket)
       /\ rq[r].published # NoRequest
            => /\ rq[r].published.bucket = rq[r].bucket
               /\ ChanName(rq[r].reply) = ReplyName(rq[r].published.bucket)
               /\ ChanName(rq[r].broadcast) = BroadcastName

\* a call given both an option bucket and a payload bucket has just started,
\* next to a published call that runs on a generated bucket
C12_Witness ==
  /\ lastOp.op = "requestQuote"
  /\ lastOp.optBucket = "b1"
  /\ lastOp.payBucket = "b2"
  /\ rq[lastOp.id].bucket = "b1"
  /\ \E r \in Req :
       /\ rq[r].pc = "Published"
       /\ rq[r].published.bucket = "g1"
       /\ ChanName(rq[r].reply) = "private-rfq.g1"
       /\ ChanName(rq[r].broadcast) = "private-rfq.broadcast"

\* C13: a quote, error or status event on one bucket's reply channel leaves
\* every in-flight call of another bucket pending, with its three listeners
\* bound and its timer armed.
StillInFlight(req) ==
  req.pc = "Published" /\ req.bound = ReplyEvents /\ req.timer

C13_EventsIsolatedByBucket ==
  lastOp.op = "emit"
    => \A r \in lastOp.inflight :
         ReplyName(rq[r].bucket) # ChanName(lastOp.chan)
           => r \notin lastOp.pending /\ StillInFlight(rq[r])

\* two calls on different buckets were in flight, and an event terminated one
C13_Witness ==
  /\ lastOp.op = "emit"
  /\ \E r1 \in lastOp.pending, r2 \in lastOp.inflight :
       /\ rq[r1].bucket # rq[r2].bucket
       /\ ChanName(lastOp.chan) = ReplyName(rq[r1].bucket)
       /\ ~Unsettled(rq[r1])
       /\ StillInFlight(rq[r2])

\* C14: when the timer of one call fires, every other in-flight call keeps
\* its listeners bound and its timer armed, on the same bucket or on another,
\* and the broadcast channel stays subscribed and cached as it was.
C14_TimeoutIsLocal ==
  lastOp.op = "requestTimeout"
    => /\ \A r \in lastOp.inflight : StillInFlight(rq[r])
       /\ channels[BroadcastName] = lastOp.cached
       /\ registry[BroadcastName] = lastOp.registered

\* a call timed out next to an in-flight call on the same bucket, with the
\* broadcast channel cached
C14_Witness ==
  /\ lastOp.op = "requestTimeout"
  /\ lastOp.pending
  /\ TimedOut(rq[lastOp.id])
  /\ \E r \in lastOp.inflight :
       /\ rq[r].bucket = rq[lastOp.id].bucket
       /\ rq[r].reply = rq[lastOp.id].reply
       /\ StillInFlight(rq[r])
  /\ channels[BroadcastName] # 0
  /\ registry[BroadcastName] # 0

\* C15: with timers that fire, every requestQuote call made ends up resolved
\* or rejected (a timeout is a rejection with the timeout error) and stays
\* so, whatever the transport does; a step in which an acquisition or a call
\* fails starts no subscription and publishes nothing, and subscriptions are
\* started by caller's calls and by a call moving on to the broadcast channel
\* only.
Terminal == {"Resolved", "Rejected"}

FailureStep ==
  \/ \E r \in Req : rq[r].pc # "Rejected" /\ rq'[r].pc = "Rejected"
  \/ \E a \in Att : att[a].st = "waiting" /\ att'[a].st = "err"

StartsAttempt == \E a \in Att : att[a].st = "free" /\ att'[a].st # "free"

C15_EveryCallTerminates ==
  /\ \A r \in Req : (rq[r].pc # "Idle") ~> [](rq[r].pc \in Terminal)
  /\ [][\A r \in Req :
          rq[r].pc \in Terminal
            => /\ rq'[r].pc = rq[r].pc
               /\ rq'[r].published = rq[r].published
               /\ rq'[r].wait = rq[r].wait]_vars
  /\ [][FailureStep
          => /\ ~StartsAttempt
             /\ \A r \in Req : rq'[r].published = rq[r].published]_vars
  /\ [][StartsAttempt
          => \/ lastOp'.op \in {"requestQuote", "onBucket"}
             \/ /\ lastOp'.op = "replyChannelSettled"
                /\ rq'[lastOp'.id].pc = "AwaitingBroadcast"]_vars

\* a published call timed out without any reply from the transport, after a
\* subscription attempt had failed
C15_Witness ==
  /\ nEmits = 0
  /\ \E r \in Req : TimedOut(rq[r]) /\ rq[r].published # NoRequest
  /\ \E a \in Att : att[a].st = "err"

\* C16: once every requestQuote call made for a bucket has reached a terminal
\* state and no onBucket subscription for the bucket is held, the reply
\* channel private-rfq.<bucket> is neither subscribed nor cached.
Held(obs) == obs.pc \in {"Waiting", "Attached"} /\ ~obs.stopped

C16_ReplyChannelReleased ==
  \A b \in Buckets :
    (/\ \E r \in Req : rq[r].bucket = b
     /\ \A r \in Req : rq[r].bucket = b => rq[r].pc \in Terminal
     /\ \A o \in Obs : ob[o].bucket = b => ~Held(ob[o]))
      => /\ channels[ReplyName(b)] = 0
         /\ pendingChannels[ReplyName(b)] = 0
         /\ registry[ReplyName(b)] = 0

\* C17: right after storeQuote(q), getQuote(q.quoteId) returns q; a quote
\* stored under a quoteId that is already there replaces the entry and the
\* number of entries stays the same; the entries under other quoteIds are
\* what they were.
C17_StoreThenGet ==
  lastT.op = "storeQuote"
    => LET q == lastT.quote IN
       /\ getQuote(quotes, q.quoteId) = q
       /\ \A id \in QuoteIds \ {q.quoteId} : quotes[id] = lastT.before[id]
       /\ Cardinality(StoredIds(quotes)) =
            IF q.quoteId \in StoredIds(lastT.before)
            THEN Cardinality(StoredIds(lastT.before))
            ELSE Cardinality(StoredIds(lastT.before)) + 1

\* a quote replaced a different one stored under its quoteId, next to an
\* entry under another quoteId
C17_Witness ==
  /\ lastT.op = "storeQuote"
  /\ lastT.before[lastT.quote.quoteId] \notin {NoQuote, lastT.quote}
  /\ quotes[lastT.quote.quoteId] = lastT.quote
  /\ Cardinality(StoredIds(quotes)) = 2

\* C18: acceptQuote, fillQuote and rejectQuote return false for a quoteId
\* that is not in the store and leave the store as it was; for a stored id
\* they return true and change the status of that entry only, to accepted,
\* filled or rejected.
Transitions == {"acceptQuote", "fillQuote", "rejectQuote"}

TargetStatus(op) ==
  CASE op = "acceptQuote" -> "accepted"
    [] op = "fillQuote" -> "filled"
    [] op = "rejectQuote" -> "rejected"

C18_TransitionOnUnknownId ==
  lastT.op \in Transitions
    => IF lastT.quoteId \notin StoredIds(lastT.before)
       THEN lastT.ret = FALSE /\ quotes = lastT.before
       ELSE /\ lastT.ret = TRUE
            /\ quotes = [lastT.before EXCEPT
                           ![lastT.quoteId].status = TargetStatus(lastT.op)]

\* rejectQuote was called with an unknown id on a store that holds a quote
C18_Witness ==
  /\ lastT.op = "rejectQuote"
  /\ lastT.quoteId \notin StoredIds(lastT.before)
  /\ lastT.ret = FALSE
  /\ StoredIds(quotes) # {}
  /\ quotes = lastT.before

\* C19: for a stored quote the three transitions succeed from every status,
\* expired or not: they return true and the entry has the new status.
C19_TransitionsPermissive ==
  \A st \in Statuses, id \in QuoteIds :
    (/\ lastT.op \in Transitions
     /\ lastT.quoteId = id
     /\ id \in StoredIds(lastT.before)
     /\ lastT.before[id].status = st)
      => /\ lastT.ret = TRUE
         /\ quotes[id].status = TargetStatus(lastT.op)
         /\ quotes[id].expiresAt = lastT.before[id].expiresAt

\* a filled quote whose expiresAt has passed was accepted
C19_Witness ==
  /\ lastT.op = "acceptQuote"
  /\ lastT.quoteId \in StoredIds(lastT.before)
  /\ lastT.before[lastT.quoteId].status = "filled"
  /\ now > lastT.before[lastT.quoteId].expiresAt
  /\ lastT.ret = TRUE
  /\ quotes[lastT.quoteId].status = "accepted"

\* C20: cleanupExpiredQuotes removes exactly the entries with
\* now > expiresAt, whatever their status, returns how many it removed and
\* leaves every other entry, one with expiresAt = now included, as it was.
C20_SweepRemovesExactlyExpired ==
  lastT.op = "cleanupExpiredQuotes"
    => /\ \A id \in QuoteIds :
            quotes[id] =
              IF id \in StoredIds(lastT.before)
                   /\ now > lastT.before[id].expiresAt
              THEN NoQuote ELSE lastT.before[id]
       /\ lastT.ret = Cardinality(StoredIds(lastT.before))
                        - Cardinality(StoredIds(quotes))

\* the sweep removed a filled quote and kept one that expires right now
C20_Witness ==
  /\ lastT.op = "cleanupExpiredQuotes"
  /\ lastT.ret = 1
  /\ \E id \in StoredIds(lastT.before) :
       /\ lastT.before[id].status = "filled"
       /\ quotes[id] = NoQuote
  /\ \E id \in StoredIds(quotes) :
       /\ quotes[id].expiresAt = now
       /\ quotes[id] = lastT.before[id]

\* C21: getStats: total is the number of stored entries; a pending quote with
\* now > expiresAt is counted under expired and not under pending; every
\* other quote is counted under its stored status, past its expiresAt or not.
PastExpiry(quote) == now > quote.expiresAt

CountWhere(store, P(_)) == Cardinality({id \in StoredIds(store) : P(store[id])})

C21_StatsCountingRule ==
  lastT.op = "getStats"
    => LET st == lastT.ret
           PendingLive(q) == q.status = "pending" /\ ~PastExpiry(q)
           Expired(q) == \/ q.status = "expired"
                         \/ q.status = "pending" /\ PastExpiry(q)
           Accepted(q) == q.status = "accepted"
           Filled(q) == q.status = "filled"
           Rejected(q) == q.status = "rejected"
       IN /\ st.total = Cardinality(StoredIds(quotes))
          /\ st.pending = CountWhere(quotes, PendingLive)
          /\ st.expired = CountWhere(quotes, Expired)
          /\ st.accepted = CountWhere(quotes, Accepted)
          /\ st.filled = CountWhere(quotes, Filled)
          /\ st.rejected = CountWhere(quotes, Rejected)

\* the statistics of a store that holds a pending and an accepted quote, both
\* past their expiresAt
C21_Witness ==
  /\ lastT.op = "getStats"
  /\ \E id1, id2 \in StoredIds(quotes) :
       /\ quotes[id1].status = "pending" /\ PastExpiry(quotes[id1])
       /\ quotes[id2].status = "accepted" /\ PastExpiry(quotes[id2])
  /\ lastT.ret.total = 2
  /\ lastT.ret.expired = 1
  /\ lastT.ret.accepted = 1
  /\ lastT.ret.pending = 0

\* C22: getStats, isQuoteExpired, getQuote, findQuotes, getAllQuotes and
\* validateOrderMatchesQuote leave the store as it was: no entry added or
\* removed and no field of any entry changed, whether or not an expiresAt has
\* passed; when the store differs from what it was before the last
\* operation, that operation was storeQuote, a transition, removeQuote,
\* clearAll, the sweep or destroy.
ReadOnlyOps ==
  {"getStats", "isQuoteExpired", "getQuote", "findQuotes", "getAllQuotes",
   "validateOrderMatchesQuote"}

MutatingOps ==
  {"storeQuote", "acceptQuote", "fillQuote", "rejectQuote", "removeQuote",
   "clearAll", "cleanupExpiredQuotes", "destroy"}

TrackerOps == ReadOnlyOps \cup MutatingOps

C22_ReadOnlyOpsLeaveStore ==
  /\ lastT.op \in ReadOnlyOps => quotes = lastT.before
  /\ (lastT.op \in TrackerOps /\ quotes # lastT.before)
       => lastT.op \in MutatingOps

\* isQuoteExpired has answered true for a stored pending quote past its
\* expiresAt
C22_Witness ==
  /\ lastT.op = "isQuoteExpired"
  /\ lastT.ret = TRUE
  /\ quotes[lastT.quoteId] # NoQuote
  /\ quotes[lastT.quoteId].status = "pending"
  /\ PastExpiry(quotes[lastT.quoteId])

\* C23 (as stated): a stored pending quote whose expiresAt has passed has the
\* stored status expired after the sweep, after isQuoteExpired on it and
\* after getStats.
PendingPastExpiry(store, id) ==
  /\ store[id] # NoQuote
  /\ store[id].status = "pending"
  /\ now > store[id].expiresAt

ExpiryChecked(id) ==
  \/ lastT.op = "cleanupExpiredQuotes"
  \/ lastT.op = "getStats"
  \/ lastT.op = "isQuoteExpired" /\ lastT.quoteId = id

C23_PendingBecomesExpired ==
  \A id \in QuoteIds :
    (ExpiryChecked(id) /\ PendingPastExpiry(lastT.before, id))
      => quotes[id] # NoQuote /\ quotes[id].status = "expired"

\* C23 (amended): expiry is reported, never stored. For a stored pending
\* quote whose expiresAt has passed, isQuoteExpired answers true and getStats
\* counts it under expired, both leaving the entry (status pending included)
\* as it was, and the sweep removes the entry; no operation of the tracker
\* writes the status expired: an entry has it only if it was stored with it.
C23_ExpiryReportedNotStored ==
  /\ \A id \in QuoteIds :
       (lastT.op \in TrackerOps /\ PendingPastExpiry(lastT.before, id))
         => /\ (lastT.op = "isQuoteExpired" /\ lastT.quoteId = id)
                 => lastT.ret = TRUE /\ quotes[id] = lastT.before[id]
            /\ lastT.op = "getStats"
                 => /\ quotes[id] = lastT.before[id]
                    /\ lastT.ret.expired >= 1
                    /\ lastT.ret.pending =
                         Cardinality({i \in StoredIds(quotes) :
                                        /\ quotes[i].status = "pending"
                                        /\ ~PastExpiry(quotes[i])})
            /\ lastT.op = "cleanupExpiredQuotes" => quotes[id] = NoQuote
  /\ \A id \in QuoteIds :
       (/\ lastT.op \in TrackerOps
        /\ quotes[id] # NoQuote
        /\ quotes[id].status = "expired")
         => \/ /\ lastT.before[id] # NoQuote
               /\ lastT.before[id].status = "expired"
            \/ /\ lastT.op = "storeQuote"
               /\ lastT.quote.quoteId = id
               /\ lastT.quote.status = "expired"

\* the interval's sweep has removed a pending quote past its expiresAt
C23_Witness ==
  /\ lastT.op = "cleanupExpiredQuotes"
  /\ lastT.interval
  /\ \E id \in QuoteIds :
       PendingPastExpiry(lastT.before, id) /\ quotes[id] = NoQuote

\* C24: validateOrderMatchesQuote returns a boolean and never raises, for
\* every order request (one with no inputs included), every quoteId and every
\* store content.
C24_ValidateNeverRaises ==
  lastT.op = "validateOrderMatchesQuote" => ~lastT.ret.raised

\* C25: validateOrderMatchesQuote returns true exactly when the quote is
\* stored, now is not past its expiresAt, the order's first input amount is
\* the integer written in the quote's inputAmount, the order has as many
\* outputs as the quote has destTokens, and at every index i the output
\* amount is within tolerance of destTokens[i].amount, as a fraction of the
\* latter: |outputs[i].amount - destTokens[i].amount| <= tolerance *
\* destTokens[i].amount.
WithinTolerance(outputAmount, quoteOutputAmount, tolerance) ==
  Abs(outputAmount - quoteOutputAmount) * tolerance.den
    <= tolerance.num * quoteOutputAmount

ReturnedTrue == ~lastT.ret.raised /\ lastT.ret.ret

ChainIdOf(chain) ==
  CASE chain = "ethereum" -> 1
    [] chain = "arbitrum" -> 42161
    [] OTHER -> 0

C26_ChainsAndInputTokenChecked ==
  (lastT.op = "validateOrderMatchesQuote" /\ ReturnedTrue)
    => LET quote == quotes[lastT.quoteId]
           order == lastT.orderRequest.order
       IN /\ order.sourceChainId = ChainIdOf(quote.sourceChain)
          /\ order.destinationChainId = ChainIdOf(quote.destChain)
          /\ order.inputs[1].tokenAddress = quote.sourceToken

\* C27: while the interval is set (destroy has not been called), an entry
\* that is stored and past its expiresAt, whatever its status, is eventually
\* no longer in the store, with no call from the caller needed.
C27_ExpiredEventuallyRemoved ==
  \A id \in QuoteIds :
    (quotes[id] # NoQuote /\ PastExpiry(quotes[id]))
      ~> \/ quotes[id] = NoQuote
         \/ ~PastExpiry(quotes[id])
         \/ ~cleanupIntervalId

\* the interval's sweep has removed an accepted quote past its expiresAt
C27_Witness ==
  /\ lastT.op = "cleanupExpiredQuotes"
  /\ lastT.interval
  /\ cleanupIntervalId
  /\ \E id \in QuoteIds :
       /\ lastT.before[id] # NoQuote
       /\ lastT.before[id].status = "accepted"
       /\ PastExpiry(lastT.before[id])
       /\ quotes[id] = NoQuote

\* C28: when destroy returns the store is empty and the interval is cleared;
\* from then on no sweep is run by the interval; a destroy that finds the
\* interval cleared and the store empty changes nothing.
SweptByInterval == lastT.op = "cleanupExpiredQuotes" /\ lastT.interval

C28_DestroyClearsAndStops ==
  /\ [](lastT.op = "destroy"
          => /\ StoredIds(quotes) = {}
             /\ ~cleanupIntervalId
             /\ (~lastT.intervalBefore /\ StoredIds(lastT.before) = {})
                  => quotes = lastT.before)
  /\ [](lastT.op = "destroy" => [](~SweptByInterval /\ ~cleanupIntervalId))

\* a second destroy
C28_Witness ==
  /\ lastT.op = "destroy"
  /\ ~lastT.intervalBefore
  /\ StoredIds(lastT.before) = {}
  /\ now > 0

\* C29: findQuotes returns exactly the stored quotes that agree with every
\* supplied criterion: bucket, sourceChain, destChain and status by equality,
\* solver by equality up to case; a criterion that is not supplied restricts
\* nothing.
Supplied(criterion) == criterion # Undefined

SameIgnoringCase(a, b) == ToLowerCase(a) = ToLowerCase(b)

MeetsCriteria(quote, criteria) ==
  /\ Supplied(criteria.bucket) => quote.bucket = criteria.bucket
  /\ Supplied(criteria.solver)
       => SameIgnoringCase(quote.solver, criteria.solver)
  /\ Supplied(criteria.sourceChain) => quote.sourceChain = criteria.sourceChain
  /\ Supplied(criteria.destChain) => quote.destChain = criteria.destChain
  /\ Supplied(criteria.status) => quote.status = criteria.status

C29_FindReturnsExactMatches ==
  lastT.op = "findQuotes"
    => lastT.ret = {quote \in getAllQuotes(quotes) :
                      MeetsCriteria(quote, lastT.criteria)}

\* C30: verifySignature resolves with true only for a well-formed signature
\* (0x prefix, 132 characters), and two calls with the same signature that
\* differ only in expectedSigner, or only in the order request, do not both
\* resolve with true.
SameBut(a, b, field) ==
  /\ a[field] # b[field]
  /\ \A f \in {"orderRequest", "signature", "expectedSigner", "chainId",
               "orderHubAddress"} \ {field} : a[f] = b[f]

C30_VerifyBindsSignerAndRequest ==
  /\ \A i \in DOMAIN verifyCalls :
       verifyCalls[i].ret
         => /\ verifyCalls[i].signature.startsWith0x
            /\ verifyCalls[i].signature.length = SignatureLength
  /\ \A i, j \in DOMAIN verifyCalls :
       (\/ SameBut(verifyCalls[i], verifyCalls[j], "expectedSigner")
        \/ SameBut(verifyCalls[i], verifyCalls[j], "orderRequest"))
         => ~(verifyCalls[i].ret /\ verifyCalls[j].ret)

\* C40: the counts returned by getStats add up: pending + accepted + filled
\* + expired + rejected = total = the number of stored entries, in every
\* store state and at every time.
C40_StatsAddUp ==
  lastT.op = "getStats"
    => /\ lastT.ret.total = Cardinality(StoredIds(quotes))
       /\ lastT.ret.pending + lastT.ret.accepted + lastT.ret.filled
            + lastT.ret.expired + lastT.ret.rejected = lastT.ret.total

\* the statistics of a store of two entries, one of them pending and past its
\* expiresAt, the other rejected
C40_Witness ==
  /\ lastT.op = "getStats"
  /\ lastT.ret.total = 2
  /\ lastT.ret.rejected = 1
  /\ \E id \in QuoteIds : PendingPastExpiry(quotes, id)

\* the step that published request r was answered at once, on r's own reply
\* channel object
AnsweredWhilePublishing ==
  /\ lastOp.op = "broadcastChannelSettled"
  /\ lastOp.echo # NoEcho
  /\ lastOp.chan = rq[lastOp.id].reply

\* C36: the reply listeners are bound before the request is published: a
\* published call that is still pending has its three listeners bound and its
\* timer armed, and a quote the transport emits on the call's reply channel
\* while the publish runs resolves the call with that quote
C36_ListenersBoundBeforePublish ==
  /\ \A r \in Req :
       rq[r].pc = "Published" => rq[r].bound = ReplyEvents /\ rq[r].timer
  /\ AnsweredWhilePublishing
       => /\ rq[lastOp.id].pc = "Resolved"
          /\ rq[lastOp.id].result
               = [bucket |-> rq[lastOp.id].bucket, quote |-> lastOp.echo]

C36_Witness ==
  /\ AnsweredWhilePublishing
  /\ rq[lastOp.id].pc = "Resolved"
  /\ rq[lastOp.id].result.quote = lastOp.echo
  /\ rq[lastOp.id].published # NoRequest

\* C37: two in-flight calls that share a bucket listen on the same reply
\* channel: one quote event on that channel resolves every in-flight call
\* listening there with the same payload, one error event or failed status
\* rejects them all, and when one call times out the other call keeps its
\* three listeners and its timer.
OnEmittedChannel(r) == r \in lastOp.inflight /\ rq[r].reply = lastOp.chan

C38_SettledMeansUnboundAndDisarmed ==
  \A r \in Req :
    rq[r].pc \in {"Resolved", "Rejected"}
      => rq[r].bound = {} /\ ~rq[r].timer

\* C39: after disconnect() has returned, and until the next requestQuote or
\* onBucket call, the channel cache and the pending-subscription cache stay
\* empty, whatever arrives for an attempt that was waiting at the disconnect.
CachesEmpty(chans, pend) == \A n \in Names : chans[n] = 0 /\ pend[n] = 0

C39_CachesStayEmptyAfterDisconnect ==
  [][lastOp.op = "disconnect"
       => \/ lastOp'.op \in {"requestQuote", "onBucket"}
          \/ CachesEmpty(channels', pendingChannels')]_vars

IsNativeAddress(str) ==
  /\ Len(str) = 42
  /\ StartsWith0x(str)
  /\ \A i \in 3..42 : str[i] \in HexChars

C32_AddressRoundTrip ==
  (lastE.op = "formatAddress" /\ IsNativeAddress(lastE.address))
    => /\ ~lastE.raised
       /\ lastE.formattedAddress = lastE.address

\* C33: createOrder returns encoded call data only if user, recipient, filler
\* and every input and output tokenAddress are 0x plus 64 hex characters,
\* primaryFillerDeadline > now, deadline > now and primaryFillerDeadline <
\* deadline; otherwise it throws and returns nothing; primaryFillerDeadline >=
\* deadline always throws.
IsBytes32(str) ==
  /\ Len(str) = 66
  /\ SubSeq(str, 1, 2) = <<"0", "x">>
  /\ {str[i] : i \in 3..66} \subseteq HexChars

OrderIsValid(order, nowSeconds) ==
  /\ IsBytes32(order.user) /\ IsBytes32(order.recipient)
  /\ IsBytes32(order.filler)
  /\ \A i \in DOMAIN order.inputs : IsBytes32(order.inputs[i].tokenAddress)
  /\ \A i \in DOMAIN order.outputs : IsBytes32(order.outputs[i].tokenAddress)
  /\ order.primaryFillerDeadline > nowSeconds
  /\ order.deadline > nowSeconds
  /\ order.primaryFillerDeadline < order.deadline

C33_CreateOrderValidation ==
  lastE.op = "createOrder"
    => LET order == lastE.orderRequest.order
       IN /\ ~lastE.ret.raised
               => /\ OrderIsValid(order, lastE.dateNow \div 1000)
                  /\ lastE.ret.data.functionName = "createOrder"
                  /\ lastE.ret.data.args = lastE.orderRequest
          /\ ~OrderIsValid(order, lastE.dateNow \div 1000)
               => lastE.ret.raised /\ lastE.ret.data = NoData
          /\ order.primaryFillerDeadline >= order.deadline
               => lastE.ret.raised

C33_Witness ==
  /\ lastE.op = "createOrder"
  /\ lastE.ret.raised
  /\ lastE.orderRequest.order.primaryFillerDeadline
       = lastE.orderRequest.order.deadline
  /\ lastE.orderRequest.order.deadline > lastE.dateNow \div 1000
  /\ \A i \in DOMAIN lastE.orderRequest.order.inputs :
       IsBytes32(lastE.orderRequest.order.inputs[i].tokenAddress)
  /\ \A i \in DOMAIN lastE.orderRequest.order.outputs :
       IsBytes32(lastE.orderRequest.order.outputs[i].tokenAddress)
  /\ IsBytes32(lastE.orderRequest.order.user)
  /\ IsBytes32(lastE.orderRequest.order.recipient)
  /\ IsBytes32(lastE.orderRequest.order.filler)

\* C34: a submitOrderGasless call whose signature is not a 0x-prefixed string
\* of 132 characters, or whose orderId is not a 0x-prefixed string of 66
\* characters, fails with an error, and no HTTP request is sent to the bot.
WellFormed(hex, length) == hex.startsWith0x /\ hex.length = length

C34_BadInputSendsNothing ==
  (/\ lastE.op = "submitOrderGasless"
   /\ \/ ~WellFormed(lastE.signature, 132)
      \/ ~WellFormed(lastE.orderId, 66))
    => /\ lastE.ret.raised
       /\ lastE.ret.requests = <<>>
       /\ lastE.ret.value = NoReceipt
       /\ lastE.ret.message
            \in {"Failed to submit gasless order: "
                   \o "Invalid signature format (expected 65 bytes hex)",
                 "Failed to submit gasless order: "
                   \o "Invalid orderId format (expected 32 bytes hex)"}

C34_Witness ==
  /\ lastE.op = "submitOrderGasless"
  /\ WellFormed(lastE.signature, 132)
  /\ ~WellFormed(lastE.orderId, 66)
  /\ lastE.orderRequest.nonce.kind = "number"
  /\ lastE.response.arrived /\ lastE.response.status = 200
  /\ lastE.response.body.success = "true"
  /\ lastE.ret.raised
  /\ lastE.ret.requests = <<>>

\* C35: a submitOrderGasless call that got an HTTP response succeeds, with
\* {success: true, txHash, orderId} taken from the response body, exactly
\* when the response is 2xx and its body has success true; a non-2xx response
\* fails the call with an error carrying the response text, a body with
\* success false fails it with an error carrying the body's error message.
GotResponse == lastE.ret.requests # <<>> /\ lastE.response.arrived

C35_SubmitOutcome ==
  (lastE.op = "submitOrderGasless" /\ GotResponse)
    => LET response == lastE.response
           accepted == /\ response.status \in 200..299
                       /\ response.body.success = "true"
       IN /\ ~lastE.ret.raised <=> accepted
          /\ accepted
               => lastE.ret.value = [success |-> TRUE,
                                     txHash |-> response.body.txHash,
                                     orderId |-> response.body.orderId]
          /\ response.status \notin 200..299
               => lastE.ret.message
                    = "Failed to submit gasless order: Bot rejected order ("
                        \o NumberToString(response.status) \o "): "
                        \o response.text
          /\ (/\ response.status \in 200..299
              /\ response.body.success = "false"
              /\ response.body.error # "")
               => lastE.ret.message
                    = "Failed to submit gasless order: "
                        \o "Order submission failed: " \o response.body.error
          /\ ~accepted => lastE.ret.value = NoReceipt

C35_Witness ==
  /\ lastE.op = "submitOrderGasless"
  /\ GotResponse
  /\ lastE.response.status = 200
  /\ lastE.response.body.success = "true"
  /\ ~lastE.ret.raised
  /\ lastE.ret.value.txHash = "0xtx"
  /\ Len(lastE.ret.requests) = 1
====
